---- MODULE Spec2Model ----
(***************************************************************************)
(* A model of hloo: Hamming-distance lookup over fixed-width binary keys.   *)
(*                                                                         *)
(* A key (Bits) of f bits is modelled as the set of its set bit positions,  *)
(* position 0 being the most significant bit of word 0 (the convention of   *)
(* BitBlock and of Bits::get).  Bit i of a word, counted from the least     *)
(* significant bit as the masks and shifts of BitOp do, is global position  *)
(* word * w + (w - 1 - i).  A u64 mask is the set of its one-bits, counted   *)
(* from the least significant bit.                                         *)
(***************************************************************************)
EXTENDS Integers, FiniteSets, Sequences, TLC

VARIABLES
    pParams,    \* permutation run: the (f, w, r, k) handed to create_permutations
    pVariant,   \* permutation run: index of the variant in use (1-based)
    pKey,       \* permutation run: the input key
    pPhase,     \* permutation run: "start", "applied", "reverted", "masked"
    pOut,       \* permutation run: the output of the last routine
    sOrds,      \* slice search: the comparator's value on each element of the slice
    sPhase,     \* slice search: "start", "located"
    sOut,       \* slice search: the outcome of the search

    lParams,    \* lookup: the (f, w, r, k) of its permuters
    lBackend,   \* lookup: "mem" (MemIndex) or "memmap" (MemMapIndex)
    lPermuters, \* lookup: per index, the permuter it holds
    lData,      \* lookup: per index, its entry sequence of (permuted key, value)
    lStats,     \* lookup: per index, the IndexStats of its last refresh
    lSizes,     \* lookup: per index, the size of its file in bytes (MemIndex: 0)
    lCorpus,    \* lookup: the (key, value) pairs put in and not removed, with multiplicity
    lClean,     \* lookup: no insert or remove has returned an error so far
    lLast,      \* lookup: the last call, its arguments and what it returned

    fDir,       \* directory: the index files in it, each with its header
    fHeld,      \* directory: the persistent lookups open on it (none or one)
    fLast,      \* directory: the last call, its arguments and what it returned

    vT,         \* vectors: the element type T of MmVec<T>
    vShared,    \* vectors: callers also create, copy and move onto the path of a live vector
    vFiles,     \* vectors: per path, the file it names
    vVecs,      \* vectors: per handle, where its call stands, its path, its open file
                \* and the bytes of its payload mapping
    vLast,      \* vectors: the last step of a call, its arguments and its result

    bBuild,     \* bit arithmetic: "debug" (overflow checks on) or "release" (off)
    bArgs,      \* bit arithmetic: the receiver and the arguments of the calls
    bRet        \* bit arithmetic: the last call and what it returned

permVars == <<pParams, pVariant, pKey, pPhase, pOut>>
searchVars == <<sOrds, sPhase, sOut>>
lookupVars == <<lParams, lBackend, lPermuters, lData, lStats, lSizes, lCorpus, lClean, lLast>>
fileVars == <<fDir, fHeld, fLast>>
vecVars == <<vT, vShared, vFiles, vVecs, vLast>>
bitVars == <<bBuild, bArgs, bRet>>
vars == <<permVars, searchVars, lookupVars, fileVars, vecVars, bitVars>>

\* Longest slice handed to the block-locating searches.
MaxLen == 7

\* Most entries an index of a lookup run holds.
MaxEntries == 3

\* Widest key, in bits, that the permutation runs enumerate.
MaxBits == 4

\* Most elements a vector of the vector runs holds.
MaxVecLen == 1

\* Most words of a bit container of the bit-arithmetic runs.
MaxWords == 2

\* Bytes of the header of a vector file (Data::HEADER_SIZE).
HEADER_SIZE == 16

\* Width of the integer type of BitOp masks (u64).
MaskWidth == 64

----------------------------------------------------------------------------
(* Helpers on sequences and sets *)

Min(S) == CHOOSE m \in S : \A n \in S : m <= n
Max(S) == CHOOSE m \in S : \A n \in S : n <= m

RECURSIVE Flatten(_)
Flatten(ss) == IF ss = <<>> THEN <<>> ELSE Head(ss) \o Flatten(Tail(ss))

RECURSIVE SumSeq(_)
SumSeq(s) == IF s = <<>> THEN 0 ELSE Head(s) + SumSeq(Tail(s))

Abs(n) == IF n < 0 THEN -n ELSE n

----------------------------------------------------------------------------
(* bit_block.rs: compute_mask, unmask, combine_masks *)

\* `1 << len` on u64 overflows when len is the width of the type: with overflow checks
\* the shift panics
shl_overflows(len) == len >= MaskWidth

\* ((1 << len) - 1) << pos on u64, for pos + len <= word_size; where overflow checks
\* are off the shift amount is taken modulo 64, so (1 << 64) - 1 is 0
compute_mask(pos, len, word_size) == pos .. (pos + (len % MaskWidth) - 1)

trailing_zeros(mask) == IF mask = {} THEN MaskWidth ELSE Min(mask)

\* number of consecutive one-bits of (mask >> pos), from bit 0 up
trailing_ones_from(mask, pos) ==
    IF pos \notin mask THEN 0
    ELSE Min({n \in 1..(MaskWidth - pos) : (pos + n) \notin mask})

leading_ones(mask) ==
    IF (MaskWidth - 1) \notin mask THEN 0
    ELSE Min({n \in 1..MaskWidth : (MaskWidth - 1 - n) \notin mask})

unmask(mask) ==
    LET pos == trailing_zeros(mask)
    IN  <<pos, trailing_ones_from(mask, pos)>>

\* Some(m1 | m2) as <<TRUE, mask>>, None as <<FALSE, {}>>
combine_masks(m1, m2) ==
    LET u1 == unmask(m1)
        u2 == unmask(m2)
    IN  IF u1[1] + u1[2] = u2[1] \/ u2[1] + u2[2] = u1[1]
        THEN <<TRUE, m1 \cup m2>>
        ELSE <<FALSE, {}>>

----------------------------------------------------------------------------
(* bit_block.rs: BitBlock *)

BitBlock(idx, pos, len) == [idx |-> idx, pos |-> pos, len |-> len]

start_pos(b) == b.pos
end_pos(b) == b.pos + b.len - 1
start_word(b, word_size) == start_pos(b) \div word_size
end_word(b, word_size) == end_pos(b) \div word_size
end_bit(b, word_size) == word_size - 1 - (end_pos(b) % word_size)
is_contiguous(b, word_size) == start_word(b, word_size) = end_word(b, word_size)

\* Split this block by word boundaries
split(b, word_size) ==
    LET sw == start_pos(b) \div word_size
        ew == end_pos(b) \div word_size
    IN  [j \in 1..(ew - sw + 1) |->
            LET word_idx == sw + j - 1
                word_start_idx == word_idx * word_size
                word_end_idx == (word_idx + 1) * word_size - 1
                start_idx == Max({start_pos(b), word_start_idx})
                end_idx == Min({end_pos(b), word_end_idx})
            IN  BitBlock(b.idx, start_idx, end_idx - start_idx + 1)]

\* Move this block to the new position: pairs <<source part, destination parts>>
move_to(b, new_pos, word_size) ==
    LET parts == split(b, word_size)
        part_pos(j) == new_pos + SumSeq([i \in 1..(j - 1) |-> parts[i].len])
    IN  [j \in 1..Len(parts) |->
            <<parts[j], split(BitBlock(parts[j].idx, part_pos(j), parts[j].len), word_size)>>]

\* mask of a single-word block
block_mask(b, word_size) == compute_mask(end_bit(b, word_size), b.len, word_size)

\* (word, bit) of a single-word block
coord(b, word_size) == <<end_word(b, word_size), end_bit(b, word_size)>>

----------------------------------------------------------------------------
(* bit_block.rs: BitOp *)

OpCopy(src_word, dst_word) ==
    [kind |-> "Copy", src_word |-> src_word, dst_word |-> dst_word,
     src_mask |-> 0..(MaskWidth - 1), src_shift |-> 0]

OpMaskAndCopy(src_word, src_mask, dst_word) ==
    [kind |-> "MaskAndCopy", src_word |-> src_word, dst_word |-> dst_word,
     src_mask |-> src_mask, src_shift |-> 0]

OpMaskShiftAndCopy(src_word, src_mask, src_shift, dst_word) ==
    [kind |-> "MaskShiftAndCopy", src_word |-> src_word, dst_word |-> dst_word,
     src_mask |-> src_mask, src_shift |-> src_shift]

\* a plausible slip: the shift taken from source to destination the wrong way round
copy_block_swapped_shift(src, dst, word_size) ==
    LET s == coord(src, word_size)
        d == coord(dst, word_size)
        src_mask == block_mask(src, word_size)
    IN  IF s[2] = d[2]
        THEN IF src.len = word_size
             THEN OpCopy(s[1], d[1])
             ELSE OpMaskAndCopy(s[1], src_mask, d[1])
        ELSE OpMaskShiftAndCopy(s[1], src_mask, s[2] - d[2], d[1])

copy_block(src, dst, word_size) ==
    LET s == coord(src, word_size)
        d == coord(dst, word_size)
        src_mask == block_mask(src, word_size)
    IN  IF s[2] = d[2]
        THEN IF src.len = word_size
             THEN OpCopy(s[1], d[1])
             ELSE OpMaskAndCopy(s[1], src_mask, d[1])
        ELSE OpMaskShiftAndCopy(s[1], src_mask, d[2] - s[2], d[1])

mask_block(src, word_size) ==
    LET word == start_word(src, word_size)
    IN  OpMaskAndCopy(word, block_mask(src, word_size), word)

clone_with_mask(op, mask) ==
    IF op.kind = "Copy" THEN op ELSE [op EXCEPT !.src_mask = mask]

\* a plausible slip: ops of one source and destination word combined whatever
\* their shifts
combine_across_shifts(a, b) ==
    IF a.kind # "Copy" /\ b.kind # "Copy"
       /\ a.src_word = b.src_word /\ a.dst_word = b.dst_word
    THEN LET c == combine_masks(a.src_mask, b.src_mask)
         IN  IF c[1] THEN <<TRUE, clone_with_mask(a, c[2])>> ELSE <<FALSE, a>>
    ELSE <<FALSE, a>>

\* Some(op) as <<TRUE, op>>, None as <<FALSE, op>>
combine(a, b) ==
    IF clone_with_mask(a, {}) = clone_with_mask(b, {})
    THEN LET c == combine_masks(a.src_mask, b.src_mask)
         IN  IF c[1] THEN <<TRUE, clone_with_mask(a, c[2])>> ELSE <<FALSE, a>>
    ELSE <<FALSE, a>>

----------------------------------------------------------------------------
(* bit_block.rs: PermutedBitBlock *)

PermutedBitBlock(block, new_pos) == [block |-> block, new_pos |-> new_pos]

\* the block as it lies after the move, to be moved back
pb_apply(pb) ==
    PermutedBitBlock(BitBlock(pb.block.idx, pb.new_pos, pb.block.len), start_pos(pb.block))

to_ops(pb, word_size) ==
    LET moved_parts == move_to(pb.block, pb.new_pos, word_size)
        ops_of(m) ==
            LET src == m[1]
                dst_parts == m[2]
                src_pos(j) == start_pos(src) + SumSeq([i \in 1..(j - 1) |-> dst_parts[i].len])
            IN  [j \in 1..Len(dst_parts) |->
                    copy_block(BitBlock(src.idx, src_pos(j), dst_parts[j].len),
                               dst_parts[j], word_size)]
    IN  Flatten([j \in 1..Len(moved_parts) |-> ops_of(moved_parts[j])])

to_mask_ops(pb, word_size) ==
    LET parts == split(pb_apply(pb).block, word_size)
    IN  [j \in 1..Len(parts) |-> mask_block(parts[j], word_size)]

----------------------------------------------------------------------------
(* permutations.rs: Permutation and its compilation to op lists *)

\* itertools group_by: maximal runs of consecutive ops with the same (dst_word, src_word)
RECURSIVE GroupRuns(_, _)
GroupRuns(ops, groups) ==
    IF ops = <<>> THEN groups
    ELSE LET op == Head(ops)
             n == Len(groups)
         IN  IF n > 0 /\ groups[n][1].dst_word = op.dst_word
                      /\ groups[n][1].src_word = op.src_word
             THEN GroupRuns(Tail(ops), [groups EXCEPT ![n] = Append(@, op)])
             ELSE GroupRuns(Tail(ops), Append(groups, <<op>>))

\* the loop over one group: prev_op absorbs each op it can be combined with
RECURSIVE FoldGroup(_, _, _, _, _)
FoldGroup(rest, prev_op, word_ops, word_size, optimize) ==
    IF rest = <<>> THEN Append(word_ops, prev_op)
    ELSE LET op == Head(rest)
             c == combine(prev_op, op)
         IN  IF optimize /\ c[1]
             THEN IF leading_ones(c[2].src_mask) = word_size
                  THEN FoldGroup(Tail(rest), OpCopy(prev_op.src_word, prev_op.dst_word),
                                 word_ops, word_size, optimize)
                  ELSE FoldGroup(Tail(rest), c[2], word_ops, word_size, optimize)
             ELSE FoldGroup(Tail(rest), op, Append(word_ops, prev_op), word_size, optimize)

\* dst_word -> op list (the HashMap of the source)
compile_permutation(ops, word_size, optimize) ==
    LET groups == GroupRuns(ops, <<>>)
        folded == [g \in 1..Len(groups) |->
                      FoldGroup(Tail(groups[g]), Head(groups[g]), <<>>, word_size, optimize)]
        dsts == {groups[g][1].dst_word : g \in 1..Len(groups)}
    IN  [d \in dsts |->
            Flatten([g \in 1..Len(groups) |->
                        IF groups[g][1].dst_word = d THEN folded[g] ELSE <<>>])]

split_bits_into_blocks(f, r) ==
    [j \in 1..r |->
        LET i == j - 1
            size(n) == (f \div r) + (IF n < f % r THEN 1 ELSE 0)
        IN  BitBlock(i, SumSeq([n \in 1..i |-> size(n - 1)]), size(i))]

\* a plausible slip: the chosen blocks pushed after the remaining ones
reorder_blocks_rest_first(blocks, order) ==
    LET rest == SelectSeq(blocks, LAMBDA b : \A n \in 1..Len(order) : order[n] # b.idx)
    IN  rest \o [n \in 1..Len(order) |-> blocks[order[n] + 1]]

reorder_blocks(blocks, order) ==
    LET rest == SelectSeq(blocks, LAMBDA b : \A n \in 1..Len(order) : order[n] # b.idx)
    IN  [n \in 1..Len(order) |-> blocks[order[n] + 1]] \o rest

create_permuted_blocks(reordered_blocks) ==
    [j \in 1..Len(reordered_blocks) |->
        PermutedBitBlock(reordered_blocks[j],
                         SumSeq([i \in 1..(j - 1) |-> reordered_blocks[i].len]))]

from_blocks(head, blocks) == [head |-> head, blocks |-> create_permuted_blocks(blocks)]

\* (0..r).combinations(k): the strictly increasing k-sequences, in lexicographic order
LexLess(a, b) ==
    \E i \in 1..Len(a) : a[i] < b[i] /\ \A j \in 1..(i - 1) : a[j] = b[j]

combinations(r, k) ==
    LET all == {c \in [1..k -> 0..(r - 1)] : \A i \in 1..(k - 1) : c[i] < c[i + 1]}
    IN  [n \in 1..Cardinality(all) |->
            CHOOSE c \in all : Cardinality({c2 \in all : LexLess(c2, c)}) = n - 1]

\* the arguments create_permutations accepts (its three assertions and that of
\* split_bits_into_blocks)
ValidParams(total_bits, word_bits, r, k) ==
    /\ total_bits % word_bits = 0
    /\ total_bits >= k
    /\ r # 0 /\ k # 0
    /\ total_bits >= r

create_permutations(total_bits, word_bits, r, k) ==
    LET blocks == split_bits_into_blocks(total_bits, r)
        orders == combinations(r, k)
    IN  [n \in 1..Len(orders) |-> from_blocks(k, reorder_blocks(blocks, orders[n]))]

compile_apply(perm, word_size, optimize) ==
    compile_permutation(
        Flatten([j \in 1..Len(perm.blocks) |-> to_ops(perm.blocks[j], word_size)]),
        word_size, optimize)

compile_revert(perm, word_size, optimize) ==
    compile_permutation(
        Flatten([j \in 1..Len(perm.blocks) |-> to_ops(pb_apply(perm.blocks[j]), word_size)]),
        word_size, optimize)

\* a plausible slip: the head blocks masked where they lie after the move
compile_top_mask_in_place(perm, word_size, optimize) ==
    compile_permutation(
        Flatten([j \in 1..perm.head |-> to_mask_ops(perm.blocks[j], word_size)]),
        word_size, optimize)

compile_top_mask(perm, word_size, optimize) ==
    compile_permutation(
        Flatten([j \in 1..perm.head |-> to_ops(perm.blocks[j], word_size)]),
        word_size, optimize)

mask_bits(perm) == SumSeq([j \in 1..perm.head |-> perm.blocks[j].block.len])

mask_words(perm, word_size) ==
    LET bits == mask_bits(perm)
    IN  (bits \div word_size) + (IF bits % word_size = 0 THEN 0 ELSE 1)

----------------------------------------------------------------------------
(* bit_permute_macro: the generated routines *)

\* the bits of word `word` of key `key`, as bit indices counted from the least
\* significant bit
WordBitsOf(key, word, w) == {i \in 0..(w - 1) : (word * w + (w - 1 - i)) \in key}

\* the global positions of the bits `bits` of word `word`
PlaceWord(bits, word, w) == {word * w + (w - 1 - i) : i \in bits}

\* one generated statement (ToTokens for BitOp), on the output `out`
RunOp(op, inp, out, w) ==
    IF op.kind = "Copy"
    THEN \* out[dst] = inp[src]
         {p \in out : p \div w # op.dst_word}
             \cup PlaceWord(WordBitsOf(inp, op.src_word, w), op.dst_word, w)
    ELSE \* out[dst] |= (inp[src] & (mask as word)) << shift   (>> for a negative shift)
         LET kept == WordBitsOf(inp, op.src_word, w) \cap op.src_mask
             moved == {i + op.src_shift : i \in kept} \cap (0..(w - 1))
         IN  out \cup PlaceWord(moved, op.dst_word, w)

RECURSIVE RunOps(_, _, _, _)
RunOps(ops, inp, out, w) ==
    IF ops = <<>> THEN out
    ELSE RunOps(Tail(ops), inp, RunOp(Head(ops), inp, out, w), w)

\* into_iter().flat_map(|(_, ops)| ops): the op lists of the destination words one
\* after another.  The HashMap's order of the words is arbitrary; each statement
\* reads only inp and writes only out[dst_word], so the order of the words does not
\* change the result, and the ascending one is taken.
RECURSIVE FlattenWords(_, _)
FlattenWords(compiled, dsts) ==
    IF dsts = {} THEN <<>>
    ELSE LET d == Min(dsts)
         IN  compiled[d] \o FlattenWords(compiled, dsts \ {d})

OpStream(compiled) == FlattenWords(compiled, DOMAIN compiled)

\* apply_static / revert_static / mask_static of variant `perm`
apply_static(perm, w, key) == RunOps(OpStream(compile_apply(perm, w, TRUE)), key, {}, w)
revert_static(perm, w, key) == RunOps(OpStream(compile_revert(perm, w, TRUE)), key, {}, w)
mask_static(perm, w, key) == RunOps(OpStream(compile_top_mask(perm, w, TRUE)), key, {}, w)

----------------------------------------------------------------------------
(* util.rs: extended_binary_search_by, exponential_search_by; slice::binary_search_by *)

\* A slice enters the searches as the sequence of the comparator's values on its
\* elements.  Offsets are counted from 0 as in the source.
At(ords, i) == ords[i + 1]
Sub(ords, from, to) == SubSeq(ords, from + 1, to)

Rank(o) == CASE o = "Less" -> 0 [] o = "Equal" -> 1 [] o = "Greater" -> 2

\* all Less elements, then all Equal, then all Greater
Consistent(ords) ==
    \A i \in 1..Len(ords) : \A j \in i..Len(ords) : Rank(ords[i]) <= Rank(ords[j])

ThenGreater(ords) == [i \in 1..Len(ords) |-> IF ords[i] = "Equal" THEN "Greater" ELSE ords[i]]
ThenLess(ords) == [i \in 1..Len(ords) |-> IF ords[i] = "Equal" THEN "Less" ELSE ords[i]]

SearchOk(pos) == [ok |-> TRUE, pos |-> pos]
SearchErr(pos) == [ok |-> FALSE, pos |-> pos]

\* slice::binary_search_by: the results the standard library allows.  On a consistent
\* slice: Ok of any matching index, else Err of the insertion point.  On any other
\* slice the result is unspecified: Ok of an element that compares Equal, or any Err.
binary_search_by(ords) ==
    LET equals == {i \in 0..(Len(ords) - 1) : At(ords, i) = "Equal"}
    IN  IF Consistent(ords)
        THEN IF equals # {}
             THEN {SearchOk(i) : i \in equals}
             ELSE {SearchErr(Cardinality({i \in 0..(Len(ords) - 1) : At(ords, i) = "Less"}))}
        ELSE {SearchOk(i) : i \in equals} \cup {SearchErr(i) : i \in 0..Len(ords)}

\* the doubling loop of exponential_search_by
RECURSIVE ExpBound(_, _)
ExpBound(ords, bound) ==
    IF bound < Len(ords) /\ At(ords, bound) = "Less"
    THEN ExpBound(ords, bound * 2)
    ELSE bound

exponential_search_by(ords) ==
    LET bound == ExpBound(ords, 1)
        start == bound \div 2
        stop == Min({Len(ords), bound + 1})
    IN  {[r EXCEPT !.pos = @ + start] : r \in binary_search_by(Sub(ords, start, stop))}

Found(start, stop) == [kind |-> "slice", start |-> start, stop |-> stop]
Panicked == [kind |-> "panic", start |-> 0, stop |-> 0]

\* the outcomes of extended_binary_search_by; start and stop are offsets into the slice
\* given, stop exclusive.  Indexing an empty slice panics.
extended_binary_search_by(ords) ==
    IF Len(ords) = 0 THEN {Panicked}
    ELSE
    LET len == Len(ords)
        mid == len \div 2
        upper == At(ThenGreater(ords), mid) = "Greater"
        \* 0 = first half kept, 1 = second half kept, 2 = not in bounds
        branch == IF upper
                  THEN IF At(ords, 0) = "Greater" THEN 2 ELSE 0
                  ELSE IF At(ords, len - 1) = "Less" THEN 2 ELSE 1
        base == IF branch = 1 THEN mid ELSE 0
        slice == IF branch = 1 THEN Sub(ords, mid, len) ELSE Sub(ords, 0, mid + 1)
    IN  IF branch = 2 THEN {Found(0, 0)}
        ELSE UNION {
                 IF ~r.ok /\ r.pos < Len(slice) /\ At(slice, r.pos) = "Equal"
                 THEN {Found(base + r.pos,
                             base + Min({r.pos + e.pos, Len(slice)})) :
                          e \in {x \in exponential_search_by(
                                           ThenLess(Sub(slice, r.pos, Len(slice)))) : ~x.ok}}
                 ELSE IF ~r.ok THEN {Found(0, 0)} ELSE {} :
                 r \in binary_search_by(ThenGreater(slice))}

----------------------------------------------------------------------------
(* The permutation families under check *)

Params(f, w, r, k) == [f |-> f, w |-> w, r |-> r, k |-> k]

\* lookup64 of lookup_impl.rs: one 64-bit word, four 16-bit blocks, one-block heads
Lookup64Params == Params(64, 64, 4, 1)

\* every (f, w, r, k) with f <= MaxBits that create_permutations accepts, 1 <= k <= r,
\* and the family of lookup64, whose word is as wide as the masks of BitOp
PermParams ==
    {p \in [f : 1..MaxBits, w : 1..MaxBits, r : 1..MaxBits, k : 1..MaxBits] :
        ValidParams(p.f, p.w, p.r, p.k) /\ p.k <= p.r}
    \cup {Lookup64Params}

\* the keys tried: all of them for the narrow families; for lookup64 the zero key,
\* the all-ones key and every key with a single bit set
Keys(f) ==
    IF f <= MaxBits THEN SUBSET (0..(f - 1))
    ELSE {{}, 0..(f - 1)} \cup {{i} : i \in 0..(f - 1)}

\* the variants of each family, and their compiled op streams (make_permutations
\* compiles them once, when the macro is expanded).  The comparison of a table with
\* itself makes TLC tabulate it once instead of at every use.
Variants ==
    LET table == [p \in PermParams |-> create_permutations(p.f, p.w, p.r, p.k)]
    IN  IF table = table THEN table ELSE table

ApplyOps ==
    LET table ==
        [p \in PermParams |->
            [v \in 1..Len(Variants[p]) |-> OpStream(compile_apply(Variants[p][v], p.w, TRUE))]]
    IN  IF table = table THEN table ELSE table

RevertOps ==
    LET table ==
        [p \in PermParams |->
            [v \in 1..Len(Variants[p]) |-> OpStream(compile_revert(Variants[p][v], p.w, TRUE))]]
    IN  IF table = table THEN table ELSE table

MaskOps ==
    LET table ==
        [p \in PermParams |->
            [v \in 1..Len(Variants[p]) |-> OpStream(compile_top_mask(Variants[p][v], p.w, TRUE))]]
    IN  IF table = table THEN table ELSE table

\* the three streams of each variant compiled with optimize = false
PlainOps ==
    LET table ==
        [p \in PermParams |->
            [v \in 1..Len(Variants[p]) |->
                [apply |-> OpStream(compile_apply(Variants[p][v], p.w, FALSE)),
                 revert |-> OpStream(compile_revert(Variants[p][v], p.w, FALSE)),
                 mask |-> OpStream(compile_top_mask(Variants[p][v], p.w, FALSE))]]]
    IN  IF table = table THEN table ELSE table

PermApply(p, v, key) == RunOps(ApplyOps[p][v], key, {}, p.w)
PermRevert(p, v, key) == RunOps(RevertOps[p][v], key, {}, p.w)
PermMask(p, v, key) == RunOps(MaskOps[p][v], key, {}, p.w)

----------------------------------------------------------------------------
(* bits.rs: the order and the distance of keys *)

\* derive(Ord) on the word array: word 0 first, so position 0 is the most significant
KeyLess(a, b) == \E i \in b \ a : \A j \in 0..(i - 1) : (j \in a) <=> (j \in b)

KeyCmp(a, b) == IF a = b THEN "Equal" ELSE IF KeyLess(a, b) THEN "Less" ELSE "Greater"

xor_dist(a, b) == Cardinality((a \ b) \cup (b \ a))

----------------------------------------------------------------------------
(* The lookups under check *)

Values == {1, 2}

\* one word of two bits in two blocks, with one-block heads and with two-block heads,
\* and lookup64 of lookup_impl.rs
LookupFamilies == {Params(2, 2, 2, 1), Params(2, 2, 2, 2), Lookup64Params}

\* the keys given to a lookup: all keys of a narrow family; of a wide one the zero key
\* and the key with the first bit of every block but the last
LookupKeys(p) ==
    IF p.f <= MaxBits THEN Keys(p.f)
    ELSE LET blocks == split_bits_into_blocks(p.f, p.r)
         IN  {{}, {blocks[i].pos : i \in 1..(p.r - 1)}}

NVariants(p) == Len(Variants[p])

\* one generated variant, as an index holds it: its routines tabulated over the keys
\* given to the lookup and over the keys stored for them, and its number of blocks
Permuter(p, v) ==
    LET stored == {PermApply(p, v, key) : key \in LookupKeys(p)}
    IN  [apply |-> [key \in LookupKeys(p) |-> PermApply(p, v, key)],
         revert |-> [key \in stored |-> PermRevert(p, v, key)],
         mask |-> [key \in stored |-> PermMask(p, v, key)],
         n_blocks |-> Len(Variants[p][v].blocks)]

\* the generated get_all_variants
get_all_variants(p) == [v \in 1..NVariants(p) |-> Permuter(p, v)]

Entry(key, value) == [key |-> key, value |-> value]

Pairs(p) == [key : LookupKeys(p), value : Values]

\* items.iter().map(|(k, v)| (permuter.apply(k), *v))
Permuted(permuter, items) ==
    [i \in 1..Len(items) |-> Entry(permuter.apply[items[i].key], items[i].value)]

----------------------------------------------------------------------------
(* slice sorting and partitioning; mmvec.rs; mem_index.rs; memmap_index.rs *)

SortedByKey(data) ==
    \A i \in 1..Len(data) : \A j \in i..Len(data) : ~KeyLess(data[j].key, data[i].key)

Arrangements(data) ==
    {[i \in 1..Len(data) |-> data[q[i]]] :
        q \in {f \in [1..Len(data) -> 1..Len(data)] :
                  \A a, b \in 1..Len(data) : f[a] = f[b] => a = b}}

\* the results allowed to an unstable sort: sorted by key, equal keys in any order
sort_unstable_by_key(data) == {s \in Arrangements(data) : SortedByKey(s)}

\* a plausible slip: the partition point taken from the other end
partition_point_of_rest(data, predicate) ==
    LET first == SelectSeq(data, LAMBDA e : e \in predicate)
        rest == SelectSeq(data, LAMBDA e : e \notin predicate)
    IN  [data |-> first \o rest, split |-> Len(rest)]

\* util::partition: a stable sort by !predicate, then the partition point
\* the predicate is given as the set of the elements it holds of
partition(data, predicate) ==
    LET first == SelectSeq(data, LAMBDA e : e \in predicate)
        rest == SelectSeq(data, LAMBDA e : e \notin predicate)
    IN  [data |-> first \o rest, split |-> Len(first)]

Done(data) == [ok |-> TRUE, data |-> data]
Failed(data) == [ok |-> FALSE, data |-> data]

\* a plausible slip: the items copied into the tail and the region left unsorted
insert_appended(data, items, io_fails) ==
    IF io_fails THEN {Failed(data)} ELSE {Done(data \o items)}

\* MmVec::insert_sorted; io_fails: the flush or the resize returns an I/O error
insert_sorted(data, items, io_fails) ==
    IF io_fails THEN {Failed(data)}
    ELSE {Done(sorted) : sorted \in sort_unstable_by_key(data \o items)}

\* MmVec::remove_matching; io_fails: the resize after the partition returns an I/O error
remove_matching(data, predicate, io_fails) ==
    LET parted == partition(data, {data[i] : i \in 1..Len(data)} \ predicate)
    IN  IF io_fails THEN {Failed(parted.data)}
        ELSE {Done(sorted) :
                 sorted \in sort_unstable_by_key(SubSeq(parted.data, 1, parted.split))}

MemIndex_insert(permuter, data, items) ==
    {Done(sorted) : sorted \in sort_unstable_by_key(data \o Permuted(permuter, items))}

\* a plausible slip: the keys looked up in the entries as they were given, unpermuted
MemIndex_remove_unpermuted(permuter, data, keys) ==
    {Done(SelectSeq(data, LAMBDA e : e.key \notin keys))}

MemIndex_remove(permuter, data, keys) ==
    LET set == {permuter.apply[k] : k \in keys}
    IN  {Done(SelectSeq(data, LAMBDA e : e.key \notin set))}

MemMapIndex_insert(permuter, data, items, io_fails) ==
    UNION {insert_sorted(data, permuted, io_fails) :
              permuted \in sort_unstable_by_key(Permuted(permuter, items))}

\* a plausible slip: the predicate of retain given to remove_matching
MemMapIndex_remove_retained(permuter, data, keys, io_fails) ==
    LET set == {permuter.apply[k] : k \in keys}
    IN  remove_matching(data, {e \in {data[i] : i \in 1..Len(data)} : e.key \notin set},
                        io_fails)

MemMapIndex_remove(permuter, data, keys, io_fails) ==
    LET set == {permuter.apply[k] : k \in keys}
    IN  remove_matching(data, {e \in {data[i] : i \in 1..Len(data)} : e.key \in set}, io_fails)

Index_insert(backend, permuter, data, items, io_fails) ==
    IF backend = "mem" THEN MemIndex_insert(permuter, data, items)
    ELSE MemMapIndex_insert(permuter, data, items, io_fails)

Index_remove(backend, permuter, data, keys, io_fails) ==
    IF backend = "mem" THEN MemIndex_remove(permuter, data, keys)
    ELSE MemMapIndex_remove(permuter, data, keys, io_fails)

----------------------------------------------------------------------------
(* stats.rs; index/mod.rs; the index search; lookup/mod.rs *)

IndexStats(n_items, nb, min_size, avg_size, max_size) ==
    [n_items |-> n_items, n_blocks |-> nb, min_block_size |-> min_size,
     avg_block_size |-> avg_size, max_block_size |-> max_size]

\* the loop of from_data over the masked keys after the first: prev_key and curr_size
\* are those of the run being counted, min and max those of the runs already closed
RECURSIVE StatsLoop(_, _, _, _, _, _)
StatsLoop(it, prev_key, curr_size, n_blocks, min, max) ==
    IF it = <<>>
    THEN [curr_size |-> curr_size, n_blocks |-> n_blocks, min |-> min, max |-> max]
    ELSE IF prev_key = Head(it)
         THEN StatsLoop(Tail(it), prev_key, curr_size + 1, n_blocks, min, max)
         ELSE StatsLoop(Tail(it), Head(it), 1, n_blocks + 1,
                        Min({min, curr_size}), Max({max, curr_size}))

\* a plausible slip: the run still open when the loop ends is left out of min and max
from_data_closed_runs(permuter, data) ==
    LET it == [i \in 1..Len(data) |-> permuter.mask[data[i].key]]
        usize_MAX == 2147483647
        after == StatsLoop(Tail(it), Head(it), 1, 1, usize_MAX, 0)
    IN  IF it = <<>> THEN IndexStats(0, 0, 0, 0, 0)
        ELSE IndexStats(Len(data), after.n_blocks, after.min,
                        Len(data) \div after.n_blocks, after.max)

\* IndexStats::from_data: one pass over the masked keys, the last run closed in the
\* result; usize::MAX is the largest integer of the model
from_data(permuter, data) ==
    LET it == [i \in 1..Len(data) |-> permuter.mask[data[i].key]]
        usize_MAX == 2147483647
        after == StatsLoop(Tail(it), Head(it), 1, 1, usize_MAX, 0)
    IN  IF it = <<>> THEN IndexStats(0, 0, 0, 0, 0)
        ELSE IndexStats(Len(data), after.n_blocks, Min({after.min, after.curr_size}),
                        Len(data) \div after.n_blocks, Max({after.max, after.curr_size}))

\* the comparator of a probe on the entries: the masked entry key against the masked
\* permuted probe
MaskOrds(permuter, data, probe) ==
    LET masked_key == permuter.mask[permuter.apply[probe]]
    IN  [i \in 1..Len(data) |-> KeyCmp(permuter.mask[data[i].key], masked_key)]

\* index/mod.rs select_block_at, on offsets counted from 0
\* a plausible slip: the block extended from pos to the right only
select_block_at_rightwards(permuter, data, pos) ==
    LET key == permuter.mask[data[pos + 1].key]
        same(i) == permuter.mask[data[i + 1].key] = key
        end == Max({e \in pos..(Len(data) - 1) : \A t \in pos..e : same(t)})
    IN  Found(pos, end + 1)

select_block_at(permuter, data, pos) ==
    LET key == permuter.mask[data[pos + 1].key]
        same(i) == permuter.mask[data[i + 1].key] = key
        start == Min({s \in 0..pos : \A t \in s..pos : same(t)})
        end == Max({e \in pos..(Len(data) - 1) : \A t \in pos..e : same(t)})
    IN  Found(start, end + 1)

SearchResultItem(data, distance) == [data |-> data, distance |-> distance]

\* a plausible slip: the distance reported without the comparison with the threshold
scan_block_unfiltered(data, block, key, distance_threshold) ==
    LET hits == SubSeq(data, block.start + 1, block.stop)
    IN  [i \in 1..Len(hits) |-> SearchResultItem(hits[i].value, xor_dist(hits[i].key, key))]

\* index/mod.rs scan_block on the block data[start..stop]
scan_block(data, block, key, distance_threshold) ==
    LET hits == SelectSeq(SubSeq(data, block.start + 1, block.stop),
                          LAMBDA e : xor_dist(e.key, key) <= distance_threshold)
    IN  [i \in 1..Len(hits) |-> SearchResultItem(hits[i].value, xor_dist(hits[i].key, key))]

\* Index::get_candidates: the block of the probe, located by the extended binary search;
\* an index without entries has no candidates
get_candidates(permuter, data, probe) ==
    IF data = <<>> THEN {Found(0, 0)}
    ELSE extended_binary_search_by(MaskOrds(permuter, data, probe))

IndexOk(list) == [status |-> "Ok", list |-> list]
IndexDistanceExceedsMax == [status |-> "DistanceExceedsMax", list |-> <<>>]

\* MemIndex::search and MemMapIndex::search
Index_search(permuter, data, key, distance) ==
    IF distance >= permuter.n_blocks THEN {IndexDistanceExceedsMax}
    ELSE LET permuted_key == permuter.apply[key]
         IN  {IF location.ok
              THEN IndexOk(scan_block(data, select_block_at(permuter, data, location.pos),
                                      permuted_key, distance))
              ELSE IndexOk(<<>>) :
                 location \in binary_search_by(MaskOrds(permuter, data, key))}

\* .collect() into a HashSet<SearchResultItem>: items are equal when their data are
\* (PartialEq and Hash of SearchResultItem), and an item equal to one in the set is not
\* inserted
collect(items) ==
    {items[i] : i \in {i \in 1..Len(items) : \A h \in 1..(i - 1) : items[h].data # items[i].data}}

\* Lookup::search_simple on the result of an Ok search: into_flat_iter().collect()
search_simple(result) == collect(Flatten(result))

\* a plausible slip: the bound of the index search taken for that of the lookup
max_search_distance_of_index(indexes) == indexes[1].n_blocks

\* self.indexes()[0].permuter().n_blocks() - 1
max_search_distance(indexes) == indexes[1].n_blocks - 1

\* the candidates of one index in Lookup::search: how many, and those within distance
Candidates(permuter, data, key, distance) ==
    {[scanned |-> c.stop - c.start,
      list |-> scan_block(data, c, permuter.apply[key], distance)] :
        c \in get_candidates(permuter, data, key)}

----------------------------------------------------------------------------
(* Permutation runs: one family, one variant, one key; apply then revert, or mask *)

NoCall ==
    [op |-> "none", status |-> "none", items |-> <<>>, keys |-> {}, before |-> <<>>,
     done |-> 0, index |-> 0, probe |-> {}, d |-> 0, scanned |-> 0, result |-> <<>>,
     simple |-> {}]

LookupIdle ==
    /\ lParams = Lookup64Params /\ lBackend = "mem" /\ lPermuters = <<>> /\ lData = <<>> /\ lStats = <<>>
    /\ lSizes = <<>>
    /\ lCorpus = <<>> /\ lClean = TRUE /\ lLast = NoCall

NoFileCall ==
    [op |-> "none", V |-> "none", params |-> Lookup64Params, status |-> "none",
     path |-> <<>>, expected |-> <<>>, actual |-> <<>>]

NoBitCall == [op |-> "none", idx |-> 0, out |-> "none", mask |-> {}, data |-> <<>>]

BitIdle == bBuild = "release" /\ bArgs = <<>> /\ bRet = NoBitCall

FileIdle == fDir = {} /\ fHeld = {} /\ fLast = NoFileCall

\* the paths and the handles of the vector runs
VecPaths == {"a", "b"}

VecIds == {1, 2}

\* no file: what a path that names nothing holds.  Of a file: the signature and the
\* length of its header, its size in bytes, and the handle that holds its lock (0: none)
NoNode == [there |-> FALSE, sig |-> <<>>, len |-> 0, size |-> 0, lock |-> 0]

\* a handle without a vector.  node: where the open file of the handle is, at a path or
\* "own" once no path names it any more
NoVec == [pc |-> "none", op |-> "none", path |-> "none", node |-> "none", own |-> NoNode,
          mapped |-> 0, arg |-> 0, target |-> "none"]

NoVecCall ==
    [op |-> "none", vec |-> 0, status |-> "none", path |-> "none", sig |-> <<>>,
     count |-> 0, held |-> FALSE]

VecIdle ==
    /\ vT = "i32"
    /\ vShared = TRUE
    /\ vFiles = [p \in VecPaths |-> NoNode]
    /\ vVecs = [v \in VecIds |-> NoVec]
    /\ vLast = NoVecCall

SearchIdle == sOrds = <<>> /\ sPhase = "idle" /\ sOut = Panicked

PermIdle ==
    /\ pParams = Lookup64Params /\ pVariant = 1 /\ pKey = {} /\ pPhase = "idle" /\ pOut = {}

PermInit ==
    /\ pParams \in PermParams
    /\ pVariant \in 1..Len(Variants[pParams])
    /\ pKey \in Keys(pParams.f)
    /\ pPhase = "start"
    /\ pOut = {}
    /\ SearchIdle
    /\ LookupIdle
    /\ FileIdle
    /\ BitIdle
    /\ VecIdle

Apply ==
    /\ pPhase = "start"
    /\ pOut' = PermApply(pParams, pVariant, pKey)
    /\ pPhase' = "applied"
    /\ UNCHANGED <<pParams, pVariant, pKey, searchVars, lookupVars, fileVars, vecVars, bitVars>>

Revert ==
    /\ pPhase = "applied"
    /\ pOut' = PermRevert(pParams, pVariant, pOut)
    /\ pPhase' = "reverted"
    /\ UNCHANGED <<pParams, pVariant, pKey, searchVars, lookupVars, fileVars, vecVars, bitVars>>

Mask ==
    /\ pPhase = "start"
    /\ pOut' = PermMask(pParams, pVariant, pKey)
    /\ pPhase' = "masked"
    /\ UNCHANGED <<pParams, pVariant, pKey, searchVars, lookupVars, fileVars, vecVars, bitVars>>

PermNext == Apply \/ Revert \/ Mask

SpecPerm == PermInit /\ [][PermNext]_vars

----------------------------------------------------------------------------
(* Slice searches: one consistent slice, located once *)

Orderings == {"Less", "Equal", "Greater"}

\* the slices of at most MaxLen elements that are sorted consistently with the comparator
ConsistentSlices ==
    UNION {{ords \in [1..n -> Orderings] : Consistent(ords)} : n \in 0..MaxLen}

SearchInit ==
    /\ sOrds \in ConsistentSlices
    /\ sPhase = "start"
    /\ sOut = Panicked
    /\ PermIdle
    /\ LookupIdle
    /\ FileIdle
    /\ BitIdle
    /\ VecIdle

Locate ==
    /\ sPhase = "start"
    /\ sOut' \in extended_binary_search_by(sOrds)
    /\ sPhase' = "located"
    /\ UNCHANGED <<sOrds, permVars, lookupVars, fileVars, vecVars, bitVars>>

SearchNext == Locate

SpecSearch == SearchInit /\ [][SearchNext]_vars

----------------------------------------------------------------------------
(* mmvec.rs, memmap_index.rs, lookup/mod.rs, lookup_impl.rs: the files of persistent *)
(* lookups in one directory                                                         *)

\* the value types a lookup is instantiated with
Types == {"i64", "u32"}

\* util::sign_type: a hash of the TypeId of V and of f, r, k, w; distinct inputs are
\* taken to hash to distinct signatures
sign_type(T, p) == <<T, p.f, p.r, p.k, p.w>>

Signatures == {sign_type(T, p) : T \in Types, p \in LookupFamilies}

\* path.join(format!("index_{:04}_{:016x}.dat", i, sig)): the name holds the index and
\* the signature
index_path(i, sig) == <<"index", i, sig>>

Paths == {index_path(i, sig) : i \in 0..(Max({NVariants(p) : p \in LookupFamilies}) - 1),
                                sig \in Signatures}

\* a file of the directory: its path, the signature and the length of its header, and
\* the number of entries that fit its payload
File(path, sig, len, capacity) ==
    [path |-> path, sig |-> sig, len |-> len, capacity |-> capacity]

Exists(dir, path) == \E file \in dir : file.path = path

FileAt(dir, path) == CHOOSE file \in dir : file.path = path

\* Data::new_uninit: the file created or truncated, sized for len entries, its header
\* written
new_uninit(dir, path, sig, len) ==
    {file \in dir : file.path # path} \cup {File(path, sig, len, len)}

LoadResult(status, expected, actual) ==
    [status |-> status, expected |-> expected, actual |-> actual]

\* MmVec::from_path: open_file fails on a missing file; then the signature is checked,
\* then the length against the capacity
from_path(dir, sig, path) ==
    IF ~Exists(dir, path) THEN LoadResult("IoError", <<>>, <<>>)
    ELSE LET data == FileAt(dir, path)
         IN  IF data.sig # sig THEN LoadResult("SignatureMismatch", sig, data.sig)
             ELSE IF data.len # data.capacity
                  THEN LoadResult("UninitializedVectorLoad", <<>>, <<>>)
                  ELSE LoadResult("Ok", <<>>, <<>>)

\* MemMapIndex::create: MmVec::new_empty
MemMapIndex_create(dir, sig, path) == new_uninit(dir, path, sig, 0)

\* MemMapIndex::load
MemMapIndex_load(dir, sig, path) == from_path(dir, sig, path)

\* SimpleLookup::create: one file per permuter, in order
RECURSIVE SimpleLookup_create(_, _, _)
SimpleLookup_create(dir, n, sig) ==
    IF n = 0 THEN dir
    ELSE MemMapIndex_create(SimpleLookup_create(dir, n - 1, sig), sig, index_path(n - 1, sig))

\* SimpleLookup::load: the error of the first index that fails to load, or Ok
SimpleLookup_load(dir, n, sig) ==
    LET loaded(i) == MemMapIndex_load(dir, sig, index_path(i, sig))
        failing == {i \in 0..(n - 1) : loaded(i).status # "Ok"}
    IN  IF failing = {} THEN LoadResult("Ok", <<>>, <<>>) ELSE loaded(Min(failing))

\* MemMapLookup::create and MemMapLookup::load of lookup_impl.rs
MemMapLookup_create(dir, T, p) == SimpleLookup_create(dir, NVariants(p), sign_type(T, p))

MemMapLookup_load(dir, T, p) == SimpleLookup_load(dir, NVariants(p), sign_type(T, p))

Handle(T, p) == [V |-> T, params |-> p]

\* the element types of the vectors, and std::mem::size_of of each
ElemTypes == {"i32", "u64"}

\* the entries of an index of lookup64 over i64: (Bits<1 x u64>, i64)
EntryType == "(Bits, i64)"

size_of(T) == IF T = "i32" THEN 4 ELSE IF T = "u64" THEN 8 ELSE 16

\* the signatures found in the files of a directory
VecSigs == {sign_type(T, Lookup64Params) : T \in Types}

\* the signature the vectors of a run are created and opened with
VecSig == sign_type("i64", Lookup64Params)

\* a plausible slip: the file sized for the payload alone
resize_file_to_fit_payload(header_size, T, len) == size_of(T) * len

\* resize_file_to_fit: the size the file is set to
resize_file_to_fit(header_size, T, len) == header_size + size_of(T) * len

\* a plausible slip: the capacity counted in bytes
capacity_in_bytes(mapped, T) == mapped

\* Data::capacity of a payload mapping of `mapped` bytes
capacity(mapped, T) == mapped \div size_of(T)

\* MmVec::as_slice: the first len elements of the payload
as_slice(payload, len) == SubSeq(payload, 1, len)

----------------------------------------------------------------------------
(* Lookup runs: one lookup over the indexes of a family; insert, remove, search *)

\* SimpleLookup::new over fresh indexes of either backend
LookupInit ==
    /\ lParams \in LookupFamilies
    /\ lBackend \in {"mem", "memmap"}
    /\ lPermuters = get_all_variants(lParams)
    /\ lData = [j \in 1..NVariants(lParams) |-> <<>>]
    /\ lStats = [j \in 1..NVariants(lParams) |-> IndexStats(0, 0, 0, 0, 0)]
    /\ lSizes = [j \in 1..NVariants(lParams) |->
                     IF lBackend = "mem" THEN 0
                     ELSE resize_file_to_fit(HEADER_SIZE, EntryType, 0)]
    /\ lCorpus = [pr \in Pairs(lParams) |-> 0]
    /\ lClean = TRUE
    /\ lLast = NoCall
    /\ PermIdle
    /\ SearchIdle
    /\ FileIdle
    /\ BitIdle
    /\ VecIdle

Longest == Max({Len(lData[j]) : j \in DOMAIN lData})

\* the entries an index takes in a run: one fewer in the wide family, whose four
\* indexes multiply the states
Room(p) == IF p.f <= MaxBits THEN MaxEntries ELSE MaxEntries - 1

ItemSeqs(p, n) == UNION {[1..m -> Pairs(p)] : m \in 0..n}

KeySets(p, n) == {keys \in SUBSET LookupKeys(p) : Cardinality(keys) <= n}

\* the index whose call returns an I/O error (0: none does); MemIndex never fails, and
\* a run sees at most one failing call
FailPoints == IF lBackend = "mem" \/ ~lClean THEN {0} ELSE 0..Len(lData)

\* the sequences that take one element of each set of a sequence of sets
RECURSIVE Choices(_)
Choices(sets) ==
    IF sets = <<>> THEN {<<>>}
    ELSE {Append(front, last) : front \in Choices(SubSeq(sets, 1, Len(sets) - 1)),
                                last \in sets[Len(sets)]}

\* for index in indexes { index.step()?; index.refresh() }: the indexes before the
\* failing one are stepped (reached[j] are the results of their calls), the failing one
\* is left as its failed call leaves it (failing[j]), the ones after it are not reached
FanOut(reached, failing, fail) ==
    LET n == Len(lData)
        outcome(j) ==
            IF fail = 0 \/ j < fail THEN {r.data : r \in reached[j]}
            ELSE IF j = fail THEN {r.data : r \in failing[j]}
            ELSE {lData[j]}
    IN  Choices([j \in 1..n |-> outcome(j)])

\* the entries of index j that a remove of the keys keeps
Kept(j, keys) ==
    Len(SelectSeq(lData[j], LAMBDA e : e.key \notin {lPermuters[j].apply[k] : k \in keys}))

\* the sizes of the index files after the loop: a reached MmVec is resized to its new
\* length; in the failing one Data::resize stops before file.set_len or after it
Resized(nd, fail, intended) ==
    {[j \in 1..Len(nd) |->
         IF lBackend = "mem" THEN 0
         ELSE IF fail = 0 \/ j < fail
              THEN resize_file_to_fit(HEADER_SIZE, EntryType, Len(nd[j]))
              ELSE IF j = fail THEN size ELSE lSizes[j]] :
        size \in IF fail = 0 THEN {0}
                 ELSE {lSizes[fail], resize_file_to_fit(HEADER_SIZE, EntryType, intended)}}

Refreshed(nd, fail) ==
    [j \in 1..Len(nd) |->
        IF fail = 0 \/ j < fail THEN from_data(lPermuters[j], nd[j]) ELSE lStats[j]]

\* the lookup is between two calls: the caller has taken the result of the last one
Ready == lLast = NoCall

Lookup_insert ==
    /\ Ready
    /\ \E items \in ItemSeqs(lParams, Room(lParams) - Longest), fail \in FailPoints :
        \E nd \in FanOut([j \in 1..Len(lData) |->
                              Index_insert(lBackend, lPermuters[j], lData[j], items, FALSE)],
                          [j \in 1..Len(lData) |->
                              Index_insert(lBackend, lPermuters[j], lData[j], items, TRUE)],
                          fail) :
            /\ lData' = nd
            /\ lStats' = Refreshed(nd, fail)
            /\ lSizes' \in Resized(nd, fail, Len(lData[Max({fail, 1})]) + Len(items))
            /\ lCorpus' = IF fail # 0 THEN lCorpus
                          ELSE [pr \in Pairs(lParams) |->
                                   lCorpus[pr]
                                       + Cardinality({i \in 1..Len(items) : items[i] = pr})]
            /\ lClean' = (lClean /\ fail = 0)
            /\ lLast' = [NoCall EXCEPT !.op = "insert",
                                       !.status = IF fail = 0 THEN "Ok" ELSE "IoError",
                                       !.items = items,
                                       !.before = lData,
                                       !.done = IF fail = 0 THEN Len(lData) ELSE fail - 1]
            /\ UNCHANGED <<lParams, lBackend, lPermuters, permVars, searchVars, fileVars, vecVars, bitVars>>

Lookup_remove ==
    /\ Ready
    /\ \E keys \in KeySets(lParams, Room(lParams)), fail \in FailPoints :
        \E nd \in FanOut([j \in 1..Len(lData) |->
                              Index_remove(lBackend, lPermuters[j], lData[j], keys, FALSE)],
                          [j \in 1..Len(lData) |->
                              Index_remove(lBackend, lPermuters[j], lData[j], keys, TRUE)],
                          fail) :
            /\ lData' = nd
            /\ lStats' = Refreshed(nd, fail)
            /\ lSizes' \in Resized(nd, fail, Kept(Max({fail, 1}), keys))
            /\ lCorpus' = IF fail # 0 THEN lCorpus
                          ELSE [pr \in Pairs(lParams) |->
                                   IF pr.key \in keys THEN 0 ELSE lCorpus[pr]]
            /\ lClean' = (lClean /\ fail = 0)
            /\ lLast' = [NoCall EXCEPT !.op = "remove",
                                       !.status = IF fail = 0 THEN "Ok" ELSE "IoError",
                                       !.keys = keys,
                                       !.before = lData,
                                       !.done = IF fail = 0 THEN Len(lData) ELSE fail - 1]
            /\ UNCHANGED <<lParams, lBackend, lPermuters, permVars, searchVars, fileVars, vecVars, bitVars>>

Lookup_search ==
    /\ Ready
    /\ \E key \in LookupKeys(lParams), distance \in 0..(lParams.r + 1) :
        /\ IF distance > max_search_distance(lPermuters)
           THEN lLast' = [NoCall EXCEPT !.op = "search", !.status = "DistanceExceedsMax",
                                        !.probe = key, !.d = distance]
           ELSE LET n == Len(lData)
                    cands(j) == Candidates(lPermuters[j], lData[j], key, distance)
                IN  \E cs \in Choices([j \in 1..n |-> cands(j)]) :
                        lLast' = [NoCall EXCEPT
                                     !.op = "search", !.status = "Ok",
                                     !.probe = key, !.d = distance,
                                     !.scanned = SumSeq([j \in 1..n |-> cs[j].scanned]),
                                     !.result = [j \in 1..n |-> cs[j].list],
                                     !.simple = search_simple([j \in 1..n |-> cs[j].list])]
        /\ UNCHANGED <<lParams, lBackend, lPermuters, lData, lStats, lSizes, lCorpus, lClean,
                       permVars, searchVars, fileVars, vecVars, bitVars>>

\* the search of one index, called directly
Index_search_call ==
    /\ Ready
    /\ \E j \in 1..Len(lData), key \in LookupKeys(lParams), distance \in 0..(lParams.r + 1) :
        \E res \in Index_search(lPermuters[j], lData[j], key, distance) :
            /\ lLast' = [NoCall EXCEPT !.op = "index_search", !.status = res.status,
                                       !.index = j, !.probe = key, !.d = distance,
                                       !.result = <<res.list>>]
            /\ UNCHANGED <<lParams, lBackend, lPermuters, lData, lStats, lSizes, lCorpus, lClean,
                           permVars, searchVars, fileVars, vecVars, bitVars>>

\* the files of the lookup in its directory: per index the signature and the length
\* of its header, and the entries that fit its payload
IndexFiles(T) ==
    {File(index_path(j - 1, sign_type(T, lParams)), sign_type(T, lParams), Len(lData[j]),
          capacity(lSizes[j] - HEADER_SIZE, EntryType)) : j \in 1..Len(lData)}

\* persist(), the lookup dropped, then MemMapLookup::load on the same directory with
\* the same parameters and value type: each index is the vector of its file again
Lookup_reload ==
    /\ Ready
    /\ lBackend = "memmap"
    /\ LET sig == sign_type("i64", lParams)
           dir == IndexFiles("i64")
           res == SimpleLookup_load(dir, Len(lPermuters), sig)
       IN  /\ lLast' = [NoCall EXCEPT !.op = "reload", !.status = res.status,
                                      !.before = lData]
           /\ lData' = IF res.status # "Ok" THEN lData
                        ELSE [j \in 1..Len(lData) |->
                                 as_slice(lData[j], FileAt(dir, index_path(j - 1, sig)).len)]
           /\ lStats' = IF res.status # "Ok" THEN lStats
                         ELSE [j \in 1..Len(lData) |-> from_data(lPermuters[j], lData[j])]
    /\ UNCHANGED <<lParams, lBackend, lPermuters, lSizes, lCorpus, lClean,
                   permVars, searchVars, fileVars, vecVars, bitVars>>

\* the caller takes the result of the last call; a load that failed returned no lookup
Lookup_return ==
    /\ lLast # NoCall
    /\ lLast.op = "reload" => lLast.status = "Ok"
    /\ lLast' = NoCall
    /\ UNCHANGED <<lParams, lBackend, lPermuters, lData, lStats, lSizes, lCorpus, lClean, permVars, searchVars, fileVars, vecVars, bitVars>>

LookupNext ==
    \/ Lookup_insert \/ Lookup_remove \/ Lookup_search \/ Index_search_call
    \/ Lookup_reload \/ Lookup_return

SpecLookup == LookupInit /\ [][LookupNext]_vars

----------------------------------------------------------------------------
(* Pair runs: a MemIndex and a MemMapIndex over one permuter, given the same calls *)

\* MemIndex::new and MemMapIndex::new with the same variant: lData[1] is the vector of
\* the MemIndex, lData[2] the mapped slice of the MemMapIndex
PairInit ==
    /\ lParams \in LookupFamilies
    /\ lBackend = "pair"
    /\ \E v \in 1..NVariants(lParams) :
           lPermuters = <<Permuter(lParams, v), Permuter(lParams, v)>>
    /\ lData = <<<<>>, <<>>>>
    /\ lStats = <<IndexStats(0, 0, 0, 0, 0), IndexStats(0, 0, 0, 0, 0)>>
    /\ lSizes = <<0, resize_file_to_fit(HEADER_SIZE, EntryType, 0)>>
    /\ lCorpus = [pr \in Pairs(lParams) |-> 0]
    /\ lClean = TRUE
    /\ lLast = NoCall
    /\ PermIdle
    /\ SearchIdle
    /\ FileIdle
    /\ BitIdle
    /\ VecIdle

\* the two indexes after a call that left them with the entries nd
PairAfter(nd, op, items, keys) ==
    /\ lData' = nd
    /\ lStats' = [j \in 1..2 |-> from_data(lPermuters[j], nd[j])]
    /\ lSizes' = <<0, resize_file_to_fit(HEADER_SIZE, EntryType, Len(nd[2]))>>
    /\ lLast' = [NoCall EXCEPT !.op = op, !.status = "Ok", !.items = items, !.keys = keys,
                               !.before = lData, !.done = 2]
    /\ UNCHANGED <<lParams, lBackend, lPermuters, lClean, permVars, searchVars, fileVars,
                   vecVars, bitVars>>

\* insert(items) on both indexes, no I/O error
Pair_insert ==
    /\ Ready
    /\ \E items \in ItemSeqs(lParams, Room(lParams) - Longest) :
        \E mem \in MemIndex_insert(lPermuters[1], lData[1], items),
           mapped \in MemMapIndex_insert(lPermuters[2], lData[2], items, FALSE) :
            /\ PairAfter(<<mem.data, mapped.data>>, "insert", items, {})
            /\ lCorpus' = [pr \in Pairs(lParams) |->
                               lCorpus[pr] + Cardinality({i \in 1..Len(items) : items[i] = pr})]

\* remove(keys) on both indexes, no I/O error
Pair_remove ==
    /\ Ready
    /\ \E keys \in KeySets(lParams, Room(lParams)) :
        \E mem \in MemIndex_remove(lPermuters[1], lData[1], keys),
           mapped \in MemMapIndex_remove(lPermuters[2], lData[2], keys, FALSE) :
            /\ PairAfter(<<mem.data, mapped.data>>, "remove", <<>>, keys)
            /\ lCorpus' = [pr \in Pairs(lParams) |->
                               IF pr.key \in keys THEN 0 ELSE lCorpus[pr]]

PairNext == Pair_insert \/ Pair_remove \/ Index_search_call \/ Lookup_return

SpecPair == PairInit /\ [][PairNext]_vars

----------------------------------------------------------------------------
(* Directory runs: persistent lookups created, dropped and loaded *)

FileInit ==
    /\ fDir = {}
    /\ fHeld = {}
    /\ fLast = NoFileCall
    /\ PermIdle
    /\ SearchIdle
    /\ LookupIdle
    /\ VecIdle
    /\ BitIdle

File_create ==
    /\ fHeld = {}
    /\ \E T \in Types, p \in LookupFamilies :
        /\ fDir' = MemMapLookup_create(fDir, T, p)
        /\ fHeld' = {Handle(T, p)}
        /\ fLast' = [NoFileCall EXCEPT !.op = "create", !.V = T, !.params = p, !.status = "Ok"]
    /\ UNCHANGED <<permVars, searchVars, lookupVars, vecVars, bitVars>>

\* the lookup goes out of scope: Drop for Data flushes and unlocks, the files stay
File_drop ==
    /\ fHeld # {}
    /\ \E h \in fHeld :
        /\ fHeld' = {}
        /\ fLast' = [NoFileCall EXCEPT !.op = "drop", !.V = h.V, !.params = h.params,
                                       !.status = "Ok"]
    /\ UNCHANGED <<fDir, permVars, searchVars, lookupVars, vecVars, bitVars>>

File_load ==
    /\ fHeld = {}
    /\ \E T \in Types, p \in LookupFamilies :
        LET res == MemMapLookup_load(fDir, T, p)
        IN  /\ fHeld' = IF res.status = "Ok" THEN {Handle(T, p)} ELSE {}
            /\ fLast' = [NoFileCall EXCEPT !.op = "load", !.V = T, !.params = p,
                                           !.status = res.status,
                                           !.expected = res.expected, !.actual = res.actual]
    /\ UNCHANGED <<fDir, permVars, searchVars, lookupVars, vecVars, bitVars>>

\* one index loaded directly from a path of the directory, and dropped
Index_load_call ==
    /\ fHeld = {}
    /\ \E sig \in Signatures, path \in Paths :
        LET res == MemMapIndex_load(fDir, sig, path)
        IN  fLast' = [NoFileCall EXCEPT !.op = "index_load", !.path = path,
                                        !.status = res.status,
                                        !.expected = res.expected, !.actual = res.actual]
    /\ UNCHANGED <<fDir, fHeld, permVars, searchVars, lookupVars, vecVars, bitVars>>

FileNext == File_create \/ File_drop \/ File_load \/ Index_load_call

SpecFile == FileInit /\ [][FileNext]_vars

----------------------------------------------------------------------------
(* mmvec.rs: vectors of one element type over the files of one directory; sizes in *)
(* bytes, the advisory lock of each file, and the steps of the calls              *)

\* the open file of handle v
FileOf(files, vecs, v) ==
    IF vecs[v].node = "own" THEN vecs[v].own
    ELSE IF vecs[v].node = "none" THEN NoNode ELSE files[vecs[v].node]

World(files, vecs) == [files |-> files, vecs |-> vecs]

\* the open file of handle v replaced by `file`
Put(files, vecs, v, file) ==
    IF vecs[v].node = "own" THEN World(files, [vecs EXCEPT ![v].own = file])
    ELSE World([files EXCEPT ![vecs[v].node] = file], vecs)

\* the handle closes its file, which unlocks it; a file that no path names is gone
Close(files, vecs, v) ==
    IF vecs[v].node \in VecPaths
    THEN World([files EXCEPT ![vecs[v].node].lock = 0],
               [vecs EXCEPT ![v].node = "none"])
    ELSE World(files, [vecs EXCEPT ![v].node = "none", ![v].own = NoNode])

\* the path names its file no more: a handle that holds the file open keeps it
Unlink(files, vecs, path) ==
    World([files EXCEPT ![path] = NoNode],
          [v \in VecIds |-> IF vecs[v].node = path
                            THEN [vecs[v] EXCEPT !.node = "own", !.own = files[path]]
                            ELSE vecs[v]])

\* rename(from, to): `to` names the file of `from`, whatever it named before
Rename(files, vecs, from, to) ==
    LET w == Unlink(files, vecs, to)
    IN  World([w.files EXCEPT ![to] = files[from], ![from] = NoNode],
              [v \in VecIds |-> IF w.vecs[v].node = from
                                THEN [w.vecs[v] EXCEPT !.node = to]
                                ELSE w.vecs[v]])

\* Data::from_file_unchecked by handle v: open_file, try_lock_exclusive, then the
\* assertion of from_file_unchecked_impl and the two mappings
from_file_unchecked(files, path, v) ==
    IF ~files[path].there \/ files[path].lock # 0
    THEN [status |-> "IoError", mapped |-> 0, files |-> files]
    ELSE IF files[path].size < HEADER_SIZE
         THEN [status |-> "Panic", mapped |-> 0, files |-> files]
         ELSE [status |-> "Ok", mapped |-> files[path].size - HEADER_SIZE,
               files |-> [files EXCEPT ![path].lock = v]]

\* the handles whose vector is alive: between two calls, or inside a resize or a copy
Live(vecs) == {v \in VecIds : vecs[v].pc \in {"alive", "resize", "copying"}}

\* another live vector was created or opened on this path
HeldByOther(vecs, v, path) == \E w \in Live(vecs) \ {v} : vecs[w].path = path

\* the callers of a run that is not shared leave the path of a live vector alone
MayWrite(v, path) == vShared \/ ~HeldByOther(vVecs, v, path)

Opened(v, path, mapped) ==
    [NoVec EXCEPT !.pc = "alive", !.path = path, !.node = path, !.mapped = mapped]

\* no file yet; the vectors hold i32, as the vector of the round trip of mmvec.rs does
VecInit ==
    /\ vT = "i32"
    /\ vShared = TRUE
    /\ vFiles = [p \in VecPaths |-> NoNode]
    /\ vVecs = [v \in VecIds |-> NoVec]
    /\ vLast = NoVecCall
    /\ PermIdle
    /\ SearchIdle
    /\ LookupIdle
    /\ FileIdle
    /\ BitIdle

\* MmVec::new_empty, MmVec::from_slice: Data::new_uninit.  create_new_file truncates
\* the file before the lock is tried.
Vec_create ==
    \E v \in VecIds, path \in VecPaths, len \in 0..MaxVecLen :
        /\ vVecs[v].pc = "none"
        /\ MayWrite(v, path)
        /\ LET locked == vFiles[path].lock # 0
               size == resize_file_to_fit(HEADER_SIZE, vT, len)
           IN  /\ vFiles' = [vFiles EXCEPT ![path] =
                                IF locked
                                THEN [NoNode EXCEPT !.there = TRUE, !.lock = vFiles[path].lock]
                                ELSE [there |-> TRUE, sig |-> VecSig, len |-> len,
                                      size |-> size, lock |-> v]]
               /\ vVecs' = IF locked THEN vVecs
                           ELSE [vVecs EXCEPT ![v] = Opened(v, path, size - HEADER_SIZE)]
               /\ vLast' = [NoVecCall EXCEPT
                               !.op = "create", !.vec = v, !.path = path, !.sig = VecSig,
                               !.count = len, !.held = HeldByOther(vVecs, v, path),
                               !.status = IF locked THEN "IoError" ELSE "Ok"]
        /\ UNCHANGED <<vT, vShared, permVars, searchVars, lookupVars, fileVars, bitVars>>

\* MmVec::from_path; a Data that fails a check is dropped, which unlocks the file
Vec_from_path ==
    \E v \in VecIds, path \in VecPaths :
        /\ vVecs[v].pc = "none"
        /\ LET opened == from_file_unchecked(vFiles, path, v)
               view == {File(path, vFiles[path].sig, vFiles[path].len,
                             capacity(opened.mapped, vT))}
               status == IF opened.status = "Ok" THEN from_path(view, VecSig, path).status
                         ELSE opened.status
           IN  /\ vFiles' = IF status = "Ok" THEN opened.files ELSE vFiles
               /\ vVecs' = IF status = "Ok"
                           THEN [vVecs EXCEPT ![v] = Opened(v, path, opened.mapped)]
                           ELSE vVecs
               /\ vLast' = [NoVecCall EXCEPT
                               !.op = "from_path", !.vec = v, !.path = path, !.sig = VecSig,
                               !.held = HeldByOther(vVecs, v, path), !.status = status]
        /\ UNCHANGED <<vT, vShared, permVars, searchVars, lookupVars, fileVars, bitVars>>

Pending(v, op, count) ==
    [NoVecCall EXCEPT !.op = op, !.vec = v, !.path = vVecs[v].path, !.count = count,
                      !.status = "pending"]

\* the header of a file cut below it cannot be read through the mapping: the access
\* faults and the process of the vector ends, which closes its files
Faulted(v, op) ==
    LET w == Close(vFiles, vVecs, v)
    IN  /\ vFiles' = w.files
        /\ vVecs' = [w.vecs EXCEPT ![v] = NoVec]
        /\ vLast' = [Pending(v, op, 0) EXCEPT !.status = "Fault"]

\* MmVec::insert_sorted and MmVec::remove_matching up to the file.set_len of
\* Data::resize; fail: the flush or the set_len returns an I/O error
Vec_resize_file ==
    \E v \in VecIds, op \in {"insert_sorted", "remove_matching"}, fail \in BOOLEAN :
        /\ vVecs[v].pc = "alive"
        /\ LET file == FileOf(vFiles, vVecs, v)
               lens == IF op = "insert_sorted" THEN file.len..MaxVecLen ELSE 0..file.len
           IN  IF file.size < HEADER_SIZE
               THEN Faulted(v, op)
               ELSE \E new_len \in lens :
                    IF fail
                    THEN /\ vLast' = [Pending(v, op, new_len) EXCEPT !.status = "IoError"]
                         /\ UNCHANGED <<vFiles, vVecs>>
                    ELSE LET sized == [file EXCEPT !.size =
                                          resize_file_to_fit(HEADER_SIZE, vT, new_len)]
                             w == Put(vFiles, vVecs, v, sized)
                         IN  /\ vFiles' = w.files
                             /\ vVecs' = [w.vecs EXCEPT ![v].pc = "resize", ![v].op = op,
                                                        ![v].arg = new_len]
                             /\ vLast' = Pending(v, op, new_len)
        /\ UNCHANGED <<vT, vShared, permVars, searchVars, lookupVars, fileVars, bitVars>>

\* the rest of Data::resize: the payload mapped anew, the length written to the
\* header; fail: the mapping returns an I/O error
Vec_resize_map ==
    \E v \in VecIds, fail \in BOOLEAN :
        /\ vVecs[v].pc = "resize"
        /\ LET file == FileOf(vFiles, vVecs, v)
               call == Pending(v, vVecs[v].op, vVecs[v].arg)
               back == [vVecs[v] EXCEPT !.pc = "alive", !.op = "none", !.arg = 0]
           IN  IF fail
               THEN /\ vVecs' = [vVecs EXCEPT ![v] = back]
                    /\ vLast' = [call EXCEPT !.status = "IoError"]
                    /\ UNCHANGED vFiles
               ELSE IF file.size < HEADER_SIZE
               THEN Faulted(v, vVecs[v].op)
               ELSE LET w == Put(vFiles, vVecs, v, [file EXCEPT !.len = vVecs[v].arg])
                    IN  /\ vFiles' = w.files
                        /\ vVecs' = [w.vecs EXCEPT
                                        ![v] = [w.vecs[v] EXCEPT
                                                   !.pc = "alive", !.op = "none", !.arg = 0,
                                                   !.mapped = size_of(vT) * vVecs[v].arg]]
                        /\ vLast' = [call EXCEPT !.status = "Ok"]
        /\ UNCHANGED <<vT, vShared, permVars, searchVars, lookupVars, fileVars, bitVars>>

\* MmVec::flush
Vec_flush ==
    \E v \in VecIds :
        /\ vVecs[v].pc = "alive"
        /\ vLast' = [Pending(v, "flush", 0) EXCEPT !.status = "Ok"]
        /\ UNCHANGED <<vT, vShared, vFiles, vVecs, permVars, searchVars, lookupVars, fileVars, bitVars>>

\* the vector goes out of scope: Drop for Data flushes and unlocks, the file is closed
Vec_drop ==
    \E v \in VecIds :
        /\ vVecs[v].pc = "alive"
        /\ LET w == Close(vFiles, vVecs, v)
           IN  /\ vFiles' = w.files
               /\ vVecs' = [w.vecs EXCEPT ![v] = NoVec]
               /\ vLast' = [Pending(v, "drop", 0) EXCEPT !.status = "Ok"]
        /\ UNCHANGED <<vT, vShared, permVars, searchVars, lookupVars, fileVars, bitVars>>

\* MmVec::destroy: the Data dropped, then remove_file of the path
Vec_destroy ==
    \E v \in VecIds :
        /\ vVecs[v].pc = "alive"
        /\ LET path == vVecs[v].path
               closed == Close(vFiles, vVecs, v)
               w == Unlink(closed.files, closed.vecs, path)
           IN  /\ vFiles' = w.files
               /\ vVecs' = [w.vecs EXCEPT ![v] = NoVec]
               /\ vLast' = [Pending(v, "destroy", 0) EXCEPT
                               !.status = IF closed.files[path].there THEN "Ok"
                                          ELSE "IoError"]
        /\ UNCHANGED <<vT, vShared, permVars, searchVars, lookupVars, fileVars, bitVars>>

\* MmVec::move_to up to drop(self.data.take()): flushed, unlocked, closed
Vec_move_drop ==
    \E v \in VecIds, target \in VecPaths :
        /\ vVecs[v].pc = "alive"
        /\ target # vVecs[v].path
        /\ MayWrite(v, target)
        /\ LET w == Close(vFiles, vVecs, v)
           IN  /\ vFiles' = w.files
               /\ vVecs' = [w.vecs EXCEPT ![v] = [NoVec EXCEPT !.pc = "move_dropped",
                                                               !.op = "move_to",
                                                               !.path = vVecs[v].path,
                                                               !.target = target]]
               /\ vLast' = Pending(v, "move_to", 0)
        /\ UNCHANGED <<vT, vShared, permVars, searchVars, lookupVars, fileVars, bitVars>>

\* rename(current_path, &path) of move_to
Vec_move_rename ==
    \E v \in VecIds :
        /\ vVecs[v].pc = "move_dropped"
        /\ LET w == Rename(vFiles, vVecs, vVecs[v].path, vVecs[v].target)
           IN  IF ~vFiles[vVecs[v].path].there
               THEN /\ vVecs' = [vVecs EXCEPT ![v] = NoVec]
                    /\ vLast' = [Pending(v, "move_to", 0) EXCEPT !.status = "IoError"]
                    /\ UNCHANGED vFiles
               ELSE /\ vFiles' = w.files
                    /\ vVecs' = [w.vecs EXCEPT ![v].pc = "move_renamed"]
                    /\ vLast' = Pending(v, "move_to", 0)
        /\ UNCHANGED <<vT, vShared, permVars, searchVars, lookupVars, fileVars, bitVars>>

\* copy(&self.path, &path) of copy_to after the flush: the target is opened for
\* writing and truncated, and takes the bytes of the file the own path names
Vec_copy ==
    \E v \in VecIds, target \in VecPaths :
        /\ vVecs[v].pc = "alive"
        /\ target # vVecs[v].path
        /\ MayWrite(v, target)
        /\ LET src == vFiles[vVecs[v].path]
           IN  IF ~src.there
               THEN /\ vLast' = [Pending(v, "copy_to", 0) EXCEPT !.status = "IoError"]
                    /\ UNCHANGED <<vFiles, vVecs>>
               ELSE /\ vFiles' = [vFiles EXCEPT ![target] =
                                     [src EXCEPT !.lock = vFiles[target].lock]]
                    /\ vVecs' = [vVecs EXCEPT ![v].pc = "copying", ![v].op = "copy_to",
                                              ![v].target = target]
                    /\ vLast' = Pending(v, "copy_to", 0)
        /\ UNCHANGED <<vT, vShared, permVars, searchVars, lookupVars, fileVars, bitVars>>

\* Data::from_file_unchecked(&path) at the end of copy_to: the copy, if it opens, is
\* the vector of a free handle
Vec_copy_open ==
    \E v \in VecIds, new \in VecIds :
        /\ vVecs[v].pc = "copying"
        /\ LET target == vVecs[v].target
               opened == from_file_unchecked(vFiles, target, new)
               back == [vVecs EXCEPT ![v].pc = "alive", ![v].op = "none",
                                     ![v].target = "none"]
           IN  /\ IF opened.status = "Ok" THEN vVecs[new].pc = "none"
                  ELSE new = v
               /\ vFiles' = opened.files
               /\ vVecs' = IF opened.status = "Ok"
                           THEN [back EXCEPT ![new] = Opened(new, target, opened.mapped)]
                           ELSE back
               /\ vLast' = [Pending(v, "copy_to", 0) EXCEPT
                               !.path = target, !.held = HeldByOther(vVecs, v, target),
                               !.status = opened.status]
        /\ UNCHANGED <<vT, vShared, permVars, searchVars, lookupVars, fileVars, bitVars>>

\* Data::from_file_unchecked(&path) at the end of move_to
Vec_move_open ==
    \E v \in VecIds :
        /\ vVecs[v].pc = "move_renamed"
        /\ LET target == vVecs[v].target
               opened == from_file_unchecked(vFiles, target, v)
           IN  /\ vFiles' = opened.files
               /\ vVecs' = [vVecs EXCEPT ![v] =
                               IF opened.status = "Ok"
                               THEN Opened(v, target, opened.mapped)
                               ELSE NoVec]
               /\ vLast' = [Pending(v, "move_to", 0) EXCEPT
                               !.path = target, !.held = HeldByOther(vVecs, v, target),
                               !.status = opened.status]
        /\ UNCHANGED <<vT, vShared, permVars, searchVars, lookupVars, fileVars, bitVars>>

VecNext ==
    \/ Vec_create \/ Vec_from_path \/ Vec_resize_file \/ Vec_resize_map \/ Vec_flush
    \/ Vec_drop \/ Vec_destroy \/ Vec_move_drop \/ Vec_move_rename \/ Vec_copy
    \/ Vec_copy_open \/ Vec_move_open

SpecVec == VecInit /\ [][VecNext]_vars

\* the runs in which every vector has its path to itself
OwnInit ==
    /\ vT = "i32"
    /\ vShared = FALSE
    /\ vFiles = [p \in VecPaths |-> NoNode]
    /\ vVecs = [v \in VecIds |-> NoVec]
    /\ vLast = NoVecCall
    /\ PermIdle
    /\ SearchIdle
    /\ LookupIdle
    /\ FileIdle
    /\ BitIdle

SpecOwn == OwnInit /\ [][VecNext]_vars

\* the sizes tried of a file found in the directory
FileSizes == 0..(resize_file_to_fit(HEADER_SIZE, "u64", MaxVecLen) + size_of("u64"))

\* one file in the directory, of any size and with any header, and no vector; a file
\* shorter than its header holds no entries, one shorter than 8 bytes no signature
OpenInit ==
    /\ vT \in ElemTypes
    /\ vShared = TRUE
    /\ \E sig \in VecSigs \cup {<<>>}, len \in 0..MaxVecLen, size \in FileSizes :
        /\ size < HEADER_SIZE => len = 0
        /\ size < 8 => sig = <<>>
        /\ vFiles = [p \in VecPaths |->
                        IF p = "a" THEN [there |-> TRUE, sig |-> sig, len |-> len,
                                         size |-> size, lock |-> 0]
                        ELSE NoNode]
    /\ vVecs = [v \in VecIds |-> NoVec]
    /\ vLast = NoVecCall
    /\ PermIdle
    /\ SearchIdle
    /\ LookupIdle
    /\ FileIdle
    /\ BitIdle

OpenNext == Vec_from_path \/ Vec_drop

SpecOpen == OpenInit /\ [][OpenNext]_vars

----------------------------------------------------------------------------
(* hloo_macros bits.rs: the generated Bits::get, Bits::iter and FromIterator.  A word *)
(* is the set of its one-bits, counted from the least significant bit.             *)

\* the word types make_permutations generates Bits over
WordSizes == {8, 16, 32, 64}

\* the words tried: zero, MAX and every word with a single bit set
WordsTried(w) == {{}, 0..(w - 1)} \cup {{j} : j \in 0..(w - 1)}

\* the containers tried: one word of WordsTried among words all zero or all MAX
BitsTried(w) ==
    UNION {{[i \in 1..n |-> IF i = p THEN x ELSE fill] :
               p \in 1..n, x \in WordsTried(w), fill \in {{}, 0..(w - 1)}} :
           n \in 1..MaxWords}

SIZE_BITS(data, w) == Len(data) * w

\* `1 << bit`: nothing gives the literal a type (the cast that follows does not), so it
\* is an i32.  A shift by 32 or more panics where overflow checks are on; where they
\* are off the shift amount is taken modulo 32.
shl_i32(bit, build) ==
    IF bit >= 32 /\ build = "debug" THEN [panic |-> TRUE, bits |-> {}]
    ELSE [panic |-> FALSE, bits |-> {bit % 32}]

\* `as #word_type_name` on an i32: truncated to a narrower type, sign-extended to a
\* wider one
as_word(bits, w) ==
    IF w <= 32 THEN bits \cap (0..(w - 1))
    ELSE IF 31 \in bits THEN bits \cup (32..(w - 1)) ELSE bits

\* Bits::get: "true", "false", or "panic"
Bits_get(data, idx, w, build) ==
    LET word == idx \div w
        bit == (w - 1) - (idx % w)
        shifted == shl_i32(bit, build)
    IN  IF shifted.panic THEN "panic"
        ELSE IF data[word + 1] \cap as_word(shifted.bits, w) # {} THEN "true" ELSE "false"

\* Bits::iter: (0..SIZE_BITS).map(|i| self.get(i))
Bits_iter(data, w, build) ==
    [n \in 1..SIZE_BITS(data, w) |-> Bits_get(data, n - 1, w, build)]

\* FromIterator<bool>: here the literal is multiplied with a word, so `1 << ..` is a
\* shift of the word type, by at most word_size - 1
Bits_from_iter(iter, n_words, w) ==
    [word \in 1..n_words |->
        {(w - 1) - (i % w) :
            i \in {i \in 0..(Len(iter) - 1) : i \div w = word - 1 /\ iter[i + 1] = "true"}}]

BitsInit ==
    /\ bBuild \in {"debug", "release"}
    /\ \E w \in WordSizes : \E data \in BitsTried(w) : bArgs = [w |-> w, data |-> data]
    /\ bRet = NoBitCall
    /\ PermIdle
    /\ SearchIdle
    /\ LookupIdle
    /\ FileIdle
    /\ VecIdle

\* b.get(idx), on the container as given
Bits_get_call ==
    /\ bRet = NoBitCall
    /\ \E idx \in 0..(SIZE_BITS(bArgs.data, bArgs.w) - 1) :
           bRet' = [NoBitCall EXCEPT !.op = "get", !.idx = idx,
                                     !.out = Bits_get(bArgs.data, idx, bArgs.w, bBuild)]
    /\ UNCHANGED <<bBuild, bArgs, permVars, searchVars, lookupVars, fileVars, vecVars>>

\* Bits::from_iter(b.iter()), on the container as given
Bits_collect ==
    /\ bRet = NoBitCall
    /\ LET iter == Bits_iter(bArgs.data, bArgs.w, bBuild)
       IN  bRet' = IF \E n \in 1..Len(iter) : iter[n] = "panic"
                   THEN [NoBitCall EXCEPT !.op = "from_iter", !.out = "panic"]
                   ELSE [NoBitCall EXCEPT
                            !.op = "from_iter", !.out = "ok",
                            !.data = Bits_from_iter(iter, Len(bArgs.data), bArgs.w)]
    /\ UNCHANGED <<bBuild, bArgs, permVars, searchVars, lookupVars, fileVars, vecVars>>

BitsNext == Bits_get_call \/ Bits_collect

SpecBits == BitsInit /\ [][BitsNext]_vars

----------------------------------------------------------------------------
(* Mask runs: compute_mask on one (pos, len, word_size), then unmask of the result *)

MaskInit ==
    /\ bBuild \in {"debug", "release"}
    /\ \E word_size \in WordSizes :
          \E len \in 1..word_size :
              \E pos \in 0..(word_size - len) :
                  bArgs = [pos |-> pos, len |-> len, word_size |-> word_size]
    /\ bRet = NoBitCall
    /\ PermIdle
    /\ SearchIdle
    /\ LookupIdle
    /\ FileIdle
    /\ VecIdle

Compute_mask ==
    /\ bRet = NoBitCall
    /\ bRet' = IF bBuild = "debug" /\ shl_overflows(bArgs.len)
               THEN [NoBitCall EXCEPT !.op = "compute_mask", !.out = "panic"]
               ELSE [NoBitCall EXCEPT
                        !.op = "compute_mask", !.out = "ok",
                        !.mask = compute_mask(bArgs.pos, bArgs.len, bArgs.word_size)]
    /\ UNCHANGED <<bBuild, bArgs, permVars, searchVars, lookupVars, fileVars, vecVars>>

\* unmask of the mask returned; `mask >> pos` with pos = 64 (the mask is 0) overflows
Unmask ==
    /\ bRet.op = "compute_mask" /\ bRet.out = "ok"
    /\ bRet' = IF bBuild = "debug" /\ shl_overflows(trailing_zeros(bRet.mask))
               THEN [bRet EXCEPT !.op = "unmask", !.out = "panic"]
               ELSE [bRet EXCEPT !.op = "unmask", !.data = unmask(bRet.mask)]
    /\ UNCHANGED <<bBuild, bArgs, permVars, searchVars, lookupVars, fileVars, vecVars>>

MaskNext == Compute_mask \/ Unmask

SpecMask == MaskInit /\ [][MaskNext]_vars

-----------------------------------------------------------------------------
(* index/stats.rs: the statistics of an index whose entries are sorted by masked     *)
(* prefix; sOrds names the masked prefix of each entry by its order against a middle *)
(* one, so that a slice has at most three runs                                       *)

\* the mask function of the test in stats.rs: the key is its own masked prefix
IdMask == [mask |-> [k \in Orderings |-> k]]

\* the entries whose keys are the masked prefixes of sOrds
StatsData == [i \in 1..Len(sOrds) |-> [key |-> sOrds[i], value |-> i]]

Stats_from_data ==
    /\ sPhase = "start"
    /\ sOut' = from_data(IdMask, StatsData)
    /\ sPhase' = "counted"
    /\ UNCHANGED <<sOrds, permVars, lookupVars, fileVars, vecVars, bitVars>>

StatsNext == Stats_from_data

SpecStats == SearchInit /\ [][StatsNext]_vars

-----------------------------------------------------------------------------
(* index/block_locator.rs: the two block locators on one slice sorted by mask_fn;   *)
(* sOrds holds the order of each entry's masked key against the masked probe        *)

\* util::exp_search, as block_locator.rs calls it: the exponential search of util.rs
exp_search(ords) == exponential_search_by(ords)

\* the outcomes of BlockLocator::DoubleBsearch; start and stop are offsets into data
locate_block_double_bsearch(ords) ==
    UNION {
        IF r.ok THEN {Panicked}
        ELSE IF r.pos < Len(ords) /\ At(ords, r.pos) = "Equal"
        THEN {IF e.ok THEN Panicked
              ELSE Found(r.pos, Min({r.pos + e.pos, Len(ords)})) :
                 e \in exp_search(ThenLess(Sub(ords, r.pos, Len(ords))))}
        ELSE {Found(0, 0)} :
        r \in binary_search_by(ThenGreater(ords))}

\* the outcomes of BlockLocator::Naive
locate_block_bsearch_and_naive_select(ords) ==
    {IF r.ok
     THEN select_block_at(IdMask, [i \in 1..Len(ords) |-> [key |-> ords[i], value |-> i]],
                          r.pos)
     ELSE Found(0, 0) :
        r \in binary_search_by(ords)}

Locate_naive ==
    /\ sPhase = "start"
    /\ sOut' \in locate_block_bsearch_and_naive_select(sOrds)
    /\ sPhase' = "naive"
    /\ UNCHANGED <<sOrds, permVars, lookupVars, fileVars, vecVars, bitVars>>

Locate_double_bsearch ==
    /\ sPhase = "start"
    /\ sOut' \in locate_block_double_bsearch(sOrds)
    /\ sPhase' = "double"
    /\ UNCHANGED <<sOrds, permVars, lookupVars, fileVars, vecVars, bitVars>>

LocatorNext == Locate_naive \/ Locate_double_bsearch

SpecLocator == SearchInit /\ [][LocatorNext]_vars

----------------------------------------------------------------------------
(* Properties of the compiled routines *)

\* the blocks of split_bits_into_blocks, by plain arithmetic
BlockLen(f, r, i) == (f \div r) + (IF i < f % r THEN 1 ELSE 0)
BlockPos(f, r, i) == SumSeq([n \in 1..i |-> BlockLen(f, r, n - 1)])

\* the head blocks of key x under the variant's subset, laid side by side from bit 0
HeadConcat(p, v, x) ==
    LET subset == combinations(p.r, p.k)[v]
        dst(j) == SumSeq([i \in 1..(j - 1) |-> BlockLen(p.f, p.r, subset[i])])
    IN  UNION {{dst(j) + (q - BlockPos(p.f, p.r, subset[j])) :
                    q \in x \cap (BlockPos(p.f, p.r, subset[j]) ..
                                  (BlockPos(p.f, p.r, subset[j])
                                      + BlockLen(p.f, p.r, subset[j]) - 1))} :
               j \in 1..p.k}

\* C3: for every variant P of create_permutations(f, w, r, k) and every key x,
\* P.revert(P.apply(x)) = x, the op streams being compiled with optimize = true
C3_RevertApplyIsIdentity ==
    pPhase = "reverted" => pOut = pKey

\* a variant that moves blocks across a word boundary has been applied to a nonzero
\* key and reverted
C3_Witness ==
    /\ pPhase = "reverted"
    /\ pVariant > 1
    /\ pParams.w > 1
    /\ pParams.f > pParams.w
    /\ pParams.k > 1
    /\ pKey # {}
    /\ PermApply(pParams, pVariant, pKey) # pKey

C5_MaskKeepsLeadingBits ==
    pPhase = "masked" =>
        pOut = pKey \cap (0..(mask_bits(Variants[pParams][pVariant]) - 1))

----------------------------------------------------------------------------
(* Properties of the slice searches *)

EqualRun(ords) == {i \in 0..(Len(ords) - 1) : At(ords, i) = "Equal"}

\* C2: on a slice sorted consistently with the comparator, extended_binary_search_by
\* returns exactly the maximal run of Equal elements: from the first such index to one
\* past the last, empty when there is none, no Equal element outside it (stated here
\* for the slices of at least one element)
C2_ExtendedSearchReturnsEqualRun ==
    (sPhase = "located" /\ Len(sOrds) > 0) =>
        /\ sOut.kind = "slice"
        /\ sOut.start..(sOut.stop - 1) = EqualRun(sOrds)

----------------------------------------------------------------------------
(* Properties of the indexes and of the lookup *)

Count(seq, e) == Cardinality({i \in 1..Len(seq) : seq[i] = e})

Elements(seq) == {seq[i] : i \in 1..Len(seq)}

SameBag(a, b) == \A e \in Elements(a) \cup Elements(b) : Count(a, e) = Count(b, e)

\* the (key, value) pairs an index holds, its keys reverted, with multiplicity
LogicalCorpus(j) ==
    [pr \in Pairs(lParams) |->
        Cardinality({i \in 1..Len(lData[j]) :
            Entry(lPermuters[j].revert[lData[j][i].key], lData[j][i].value) = pr})]

\* the values a search returned, over all its per-index lists
FoundValues ==
    UNION {{item.data : item \in Elements(lLast.result[j])} : j \in 1..Len(lLast.result)}

NaiveValues(key, distance) ==
    {pr.value : pr \in {q \in Pairs(lParams) : lCorpus[q] > 0 /\ xor_dist(q.key, key) <= distance}}

\* C1: for every corpus put in through Lookup.insert, every probe x and every d with
\* 0 <= d <= r - 1, the values in the per-index lists of Lookup.search(x, d) are exactly
\* the values of the corpus entries within Hamming distance d of x
C1_SearchEqualsNaive ==
    (lLast.op = "search" /\ lLast.status = "Ok" /\ lClean) =>
        FoundValues = NaiveValues(lLast.probe, lLast.d)

\* C6: after a successful Index.insert(items) on an index with contents D, of either
\* backend, the entries are the multiset union of D and the permuted items (so their
\* number is |D| + |items|) and are sorted non-decreasingly by permuted key
C6_InsertIsSortedUnion ==
    lLast.op = "insert" =>
        \A j \in 1..lLast.done :
            /\ SameBag(lData[j], lLast.before[j] \o Permuted(lPermuters[j], lLast.items))
            /\ Len(lData[j]) = Len(lLast.before[j]) + Len(lLast.items)
            /\ SortedByKey(lData[j])

\* a memory-mapped index holding one entry has taken an item whose permuted key is
\* smaller, given after it
C6_Witness ==
    /\ lLast.op = "insert" /\ lLast.status = "Ok"
    /\ lBackend = "memmap"
    /\ Len(lLast.before[1]) = 1
    /\ Len(lLast.items) = 1
    /\ KeyLess(lPermuters[1].apply[lLast.items[1].key], lLast.before[1][1].key)

\* C7: after a successful Index.remove(keys) no entry has the permuted form of a key of
\* keys, every other entry is kept with its multiplicity, and the entries are sorted
C7_RemoveDropsExactlyKeys ==
    lLast.op = "remove" =>
        \A j \in 1..lLast.done :
            LET gone == {lPermuters[j].apply[k] : k \in lLast.keys}
            IN  /\ \A i \in 1..Len(lData[j]) : lData[j][i].key \notin gone
                /\ SameBag(lData[j], SelectSeq(lLast.before[j], LAMBDA e : e.key \notin gone))
                /\ SortedByKey(lData[j])

\* a memory-mapped index holding one key under two values has had that key removed
C7_Witness ==
    /\ lLast.op = "remove" /\ lLast.status = "Ok"
    /\ lBackend = "memmap"
    /\ Len(lLast.before[1]) = 2
    /\ lLast.before[1][1].key = lLast.before[1][2].key
    /\ lLast.before[1][1].value # lLast.before[1][2].value
    /\ lPermuters[1].revert[lLast.before[1][1].key] \in lLast.keys
    /\ lData[1] = <<>>

\* C8: after every return of Lookup.insert or Lookup.remove, Ok or error, all indexes
\* hold the same multiset of (key, value) pairs
C8_IndexesAgree ==
    lLast.op \in {"insert", "remove"} =>
        \A j \in 1..Len(lData) : LogicalCorpus(j) = LogicalCorpus(1)

\* C9: Lookup.search returns DistanceExceedsMax exactly when d > r - 1, then without
\* scanning an index, and Ok for every d <= r - 1; the search of an index rejects
\* exactly the distances d >= r
C9_DistanceLimit ==
    /\ lLast.op = "search" =>
           /\ (lLast.status = "DistanceExceedsMax") <=> (lLast.d > lParams.r - 1)
           /\ (lLast.status = "Ok") <=> (lLast.d <= lParams.r - 1)
           /\ lLast.status = "DistanceExceedsMax" => (lLast.scanned = 0 /\ lLast.result = <<>>)
    /\ lLast.op = "index_search" =>
           /\ (lLast.status = "DistanceExceedsMax") <=> (lLast.d >= lParams.r)
           /\ (lLast.status = "Ok") <=> (lLast.d < lParams.r)

\* a lookup holding entries has refused a search at d = r
C9_Witness ==
    /\ lLast.op = "search"
    /\ lLast.d = lParams.r
    /\ lLast.status = "DistanceExceedsMax"
    /\ Len(lData[1]) > 0

----------------------------------------------------------------------------
(* Properties of persistent lookups *)

\* C10: a lookup created in a directory with value type i64 and dropped, then loaded
\* from that directory with value type u32 and the same f, r, k, w, fails with
\* SignatureMismatch, not with another error and not with success
C10_LoadOtherTypeIsSignatureMismatch ==
    (/\ fLast.op = "load" /\ fLast.V = "u32"
     /\ fDir = MemMapLookup_create({}, "i64", fLast.params)) =>
        fLast.status = "SignatureMismatch"

----------------------------------------------------------------------------
(* Properties of the memory-mapped vector and its file *)

\* the file is exactly as long as its header and the entries its header counts
ExactSize(file, T) == file.size = HEADER_SIZE + file.len * size_of(T)

\* C11: from_path on a file that can be opened and carries the expected signature
\* returns Ok exactly when the size of the file is 16 + length * sizeof(T) for the
\* length of its header, and fails with UninitializedVectorLoad at every other size,
\* shorter or longer, the longer ones by fewer than sizeof(T) bytes included.
C11_InexactSizeIsUninitializedLoad ==
    (/\ vLast.op = "from_path"
     /\ ~vLast.held
     /\ vFiles[vLast.path].there
     /\ vFiles[vLast.path].sig = vLast.sig)
        => vLast.status = IF ExactSize(vFiles[vLast.path], vT) THEN "Ok"
                          ELSE "UninitializedVectorLoad"

\* C12: at most one live vector holds the file of a path: while a vector created or
\* opened on a path is alive, every other attempt to open that path (from_path, the
\* target of copy_to, the target of move_to) returns an I/O error, and no two live
\* vectors have the same path.
C12_HeldPathCannotBeOpened ==
    /\ (vLast.op \in {"from_path", "copy_to", "move_to"} /\ vLast.held)
            => vLast.status = "IoError"
    /\ \A v, w \in Live(vVecs) : v # w => vVecs[v].path # vVecs[w].path

\* the file a vector stands for: its open file, or inside move_to, between the drop
\* of its Data and the reopening, the file of the path it is moved from or to
TheFile(v) ==
    IF vVecs[v].pc = "move_dropped" THEN vFiles[vVecs[v].path]
    ELSE IF vVecs[v].pc = "move_renamed" THEN vFiles[vVecs[v].target]
    ELSE FileOf(vFiles, vVecs, v)

\* C13: from the return of create or open until destroy or drop, the file of a vector
\* is held under its exclusive lock in every state, the states inside a resize, a
\* flush, copy_to and move_to included: another opener can never acquire the lock.
C13_LockHeldThroughout ==
    \A v \in VecIds :
        (vVecs[v].pc # "none" /\ TheFile(v).there) => TheFile(v).lock = v

\* the step is the drop of a vector whose file a path still names
DropOf(v, path) ==
    /\ vLast'.op = "drop" /\ vLast'.vec = v
    /\ vVecs[v].pc = "alive" /\ vVecs[v].node = path /\ vVecs'[v].pc = "none"

\* from_path with the signature of the header accepts the file of the path
Accepted(files, path) ==
    /\ files[path].size >= HEADER_SIZE
    /\ from_path({File(path, files[path].sig, files[path].len,
                        capacity(files[path].size - HEADER_SIZE, vT))},
                 files[path].sig, path).status = "Ok"

SizesFit ==
    (vLast.status = "Ok" /\ vLast.op \in {"create", "insert_sorted", "remove_matching"})
        => LET file == FileOf(vFiles, vVecs, vLast.vec)
           IN  /\ file.len = vLast.count
               /\ vVecs[vLast.vec].mapped = file.len * size_of(vT)
               /\ file.size = HEADER_SIZE + file.len * size_of(vT)
               /\ vVecs[vLast.vec].node \in VecPaths => Accepted(vFiles, vVecs[vLast.vec].node)

DropKeepsFile ==
    \A v \in VecIds, path \in VecPaths :
        DropOf(v, path)
            => /\ vFiles'[path] = [vFiles[path] EXCEPT !.lock = 0]
               /\ Accepted(vFiles, path) => Accepted(vFiles', path)

----------------------------------------------------------------------------
(* Properties of lookups: persistence, result sets, empty indexes, order *)

\* per index, the result lists a search of the lookup can return, each as the set of
\* its items
SearchOutcomes(data, key, distance) ==
    [j \in 1..Len(data) |->
        {Elements(c.list) : c \in Candidates(lPermuters[j], data[j], key, distance)}]

ListValues(list) == [i \in 1..Len(list) |-> list[i].data]

\* C15: the set search_simple returns holds every value at most once, although an
\* entry is found by several indexes; and when a key was inserted twice, with values
\* v1 # v2, a search for it with d = 0 returns v1 and v2 exactly once in the list of
\* every index, and search_simple returns exactly the two values.
C15_SearchSimpleDeduplicates ==
    (lLast.op = "search" /\ lLast.status = "Ok" /\ lClean) =>
        /\ \A a, b \in lLast.simple : a.data = b.data => a = b
        /\ \A v1, v2 \in Values :
              (/\ v1 # v2 /\ lLast.d = 0
               /\ lCorpus[Entry(lLast.probe, v1)] = 1
               /\ lCorpus[Entry(lLast.probe, v2)] = 1)
                  => /\ \A j \in 1..Len(lLast.result) :
                            /\ Count(ListValues(lLast.result[j]), v1) = 1
                            /\ Count(ListValues(lLast.result[j]), v2) = 1
                     /\ {item.data : item \in lLast.simple} = {v1, v2}

\* C16: on a lookup whose indexes are all empty, search(x, d) with d <= r - 1 returns
\* Ok with every per-index list empty and candidates_scanned = 0, without failing or
\* panicking; and the block-locating search returns the empty slice for an empty
\* input slice.
C16_EmptyLookupAndEmptySlice ==
    /\ (/\ lLast.op = "search"
        /\ \A j \in 1..Len(lData) : lData[j] = <<>>
        /\ lLast.d <= max_search_distance(lPermuters))
           => /\ lLast.status = "Ok"
              /\ Len(lLast.result) = Len(lData)
              /\ \A j \in 1..Len(lLast.result) : lLast.result[j] = <<>>
              /\ lLast.scanned = 0
    /\ (sPhase = "located" /\ sOrds = <<>>) => sOut = Found(0, 0)

\* C17: in every state reached by insert and remove calls on the indexes, calls of the
\* memory-mapped backend that return an I/O error part-way included, the entries of
\* every index are sorted non-decreasingly by permuted key.
C17_EntriesAlwaysSorted ==
    \A j \in 1..Len(lData) : SortedByKey(lData[j])

\* C19: once an insert has returned Ok, every later search(key, 0) for the key of an
\* inserted item (key, v) returns v in the list of every index, until a remove with
\* that key; after the remove search(key, 0) returns an empty result, and the keys not
\* removed still return their values.
C19_SearchSeesInsertsUntilRemoved ==
    (lLast.op = "search" /\ lLast.status = "Ok" /\ lLast.d = 0 /\ lClean) =>
        \A j \in 1..Len(lLast.result) :
            /\ \A v \in Values :
                   lCorpus[Entry(lLast.probe, v)] > 0
                       => v \in Elements(ListValues(lLast.result[j]))
            /\ (\A v \in Values : lCorpus[Entry(lLast.probe, v)] = 0)
                   => lLast.result[j] = <<>>

\* the results a search of one index can return: its status and the set of its
\* (value, distance) items
SearchResults(j, key, distance) ==
    {[status |-> res.status, items |-> Elements(res.list)] :
        res \in Index_search(lPermuters[j], lData[j], key, distance)}

\* C20: a MemIndex and a MemMapIndex driven by the same insert and remove calls, none
\* of which met an I/O error, hold the same multiset of (permuted key, value) entries
\* and return the same set of (value, distance) results for every search(x, d).
C20_BackendsAgree ==
    /\ SameBag(lData[1], lData[2])
    /\ \A key \in LookupKeys(lParams), distance \in 0..(lParams.r + 1) :
           SearchResults(1, key, distance) = SearchResults(2, key, distance)

\* after a remove the two indexes hold the same entries in different orders, and a
\* search returns items
C20_Witness ==
    /\ lLast.op = "remove"
    /\ lData[1] # lData[2]
    /\ Len(lData[1]) < Len(lLast.before[1])
    /\ \E key \in LookupKeys(lParams) :
           \E res \in SearchResults(1, key, 1) : res.items # {}

----------------------------------------------------------------------------
(* Properties of the variants, the bit containers and the masks *)

RECURSIVE Binomial(_, _)
Binomial(n, k) ==
    IF k = 0 THEN 1 ELSE IF n = 0 THEN 0 ELSE Binomial(n - 1, k - 1) + Binomial(n - 1, k)

\* the block indexes of a variant, in the order of its blocks
BlockOrder(perm) == [j \in 1..Len(perm.blocks) |-> perm.blocks[j].block.idx]

\* the blocks of key x laid side by side from bit 0, in the given order of block indexes
BlockConcat(p, order, x) ==
    LET dst(j) == SumSeq([i \in 1..(j - 1) |-> BlockLen(p.f, p.r, order[i])])
    IN  UNION {{dst(j) + (q - BlockPos(p.f, p.r, order[j])) :
                    q \in x \cap (BlockPos(p.f, p.r, order[j]) ..
                                  (BlockPos(p.f, p.r, order[j])
                                      + BlockLen(p.f, p.r, order[j]) - 1))} :
               j \in 1..Len(order)}

\* C21: create_permutations(f, w, r, k) returns exactly C(r, k) variants, one per
\* k-subset of the r blocks, in lexicographic order of the subsets; the block order of
\* a variant is its subset in increasing index, then the remaining blocks in their
\* original order; the blocks lie contiguously from bit 0, and apply(x) is the
\* concatenation of the blocks of x in that order.
C21_VariantsAreSubsetsInOrder ==
    LET variants == Variants[pParams]
        k == pParams.k
        r == pParams.r
        order(v) == BlockOrder(variants[v])
    IN  /\ Len(variants) = Binomial(r, k)
        /\ \A v \in 1..Len(variants) :
              /\ Len(order(v)) = r
              /\ {order(v)[j] : j \in 1..r} = 0..(r - 1)
              /\ \A j \in 1..(r - 1) : j # k => order(v)[j] < order(v)[j + 1]
              /\ \A j \in 1..r :
                    /\ variants[v].blocks[j].block.len = BlockLen(pParams.f, r, order(v)[j])
                    /\ variants[v].blocks[j].block.pos = BlockPos(pParams.f, r, order(v)[j])
                    /\ variants[v].blocks[j].new_pos
                           = SumSeq([i \in 1..(j - 1) |-> variants[v].blocks[i].block.len])
              /\ \A u \in 1..(v - 1) : LexLess(SubSeq(order(u), 1, k), SubSeq(order(v), 1, k))
        /\ pPhase = "applied" => pOut = BlockConcat(pParams, order(pVariant), pKey)

\* a variant whose subset is not a prefix of the blocks has been applied to a key with
\* bits in a block that moved
C21_Witness ==
    /\ pPhase = "applied"
    /\ pParams.r > 2
    /\ pParams.k > 1
    /\ BlockOrder(Variants[pParams][pVariant])[1] > 0
    /\ pOut # pKey
    /\ pOut # {}

\* C22: for every word width w in {8, 16, 32, 64} and every bit index i, Bits.get(i) is
\* true exactly when bit (w - 1 - i mod w) of word i div w is set, the shift that
\* builds the bit mask not overflowing; and Bits::from_iter(b.iter()) = b.
C22_GetIsMsbFirstAndRoundTrips ==
    /\ bRet.op = "get" =>
          bRet.out = IF ((bArgs.w - 1) - (bRet.idx % bArgs.w))
                            \in bArgs.data[(bRet.idx \div bArgs.w) + 1]
                     THEN "true" ELSE "false"
    /\ bRet.op = "from_iter" => (bRet.out = "ok" /\ bRet.data = bArgs.data)

----------------------------------------------------------------------------
(* Properties of the search results, the statistics and the block locators *)

\* the index whose entries list n of the last search was scanned from
ScannedIndex(n) == IF lLast.op = "index_search" THEN lLast.index ELSE n

\* C23: every item returned by an index search or by Lookup.search(x, d) carries the
\* value of an entry stored in that index whose original key k has Hamming(k, x) <= d,
\* and its distance is Hamming(k, x), although it is computed on the permuted keys.
C23_ItemsAreStoredEntriesWithinDistance ==
    (lLast.op \in {"search", "index_search"} /\ lLast.status = "Ok") =>
        \A n \in 1..Len(lLast.result) :
            \A item \in Elements(lLast.result[n]) :
                \E e \in Elements(lData[ScannedIndex(n)]) :
                    LET k == lPermuters[ScannedIndex(n)].revert[e.key]
                    IN  /\ e.value = item.data
                        /\ item.distance = xor_dist(k, lLast.probe)
                        /\ item.distance <= lLast.d

\* an index that moves blocks has returned, from a lookup search, an entry at a
\* distance of at least one from the probe
C23_Witness ==
    /\ lLast.op = "search" /\ lLast.status = "Ok"
    /\ lLast.d >= 1
    /\ \E n \in 2..Len(lLast.result) :
          \E item \in Elements(lLast.result[n]) :
              /\ item.distance >= 1
              /\ lPermuters[n].apply[lLast.probe] # lLast.probe

\* C24: for every word_size in {8, 16, 32, 64} and every pos, len with len >= 1 and
\* pos + len <= word_size, the full word len = word_size = 64 included, compute_mask
\* returns without overflow the mask of exactly len one-bits at bits pos .. pos + len - 1,
\* and unmask of that mask returns (pos, len).
C24_ComputeMaskAndUnmask ==
    /\ bRet.op \in {"compute_mask", "unmask"} =>
          /\ bRet.out = "ok"
          /\ bRet.mask = bArgs.pos .. (bArgs.pos + bArgs.len - 1)
          /\ Cardinality(bRet.mask) = bArgs.len
    /\ bRet.op = "unmask" => bRet.data = <<bArgs.pos, bArgs.len>>

\* the first positions of the maximal runs of equal neighbours of a sequence
RunStarts(seq) == {i \in 1..Len(seq) : i = 1 \/ seq[i] # seq[i - 1]}

\* the length of the maximal run that starts at position i
RunLength(seq, i) ==
    Min({j \in i..Len(seq) : j = Len(seq) \/ seq[j + 1] # seq[i]}) - i + 1

\* C25: the statistics of entries sorted by masked prefix count the entries and the
\* maximal runs of equal masked prefix, report the smallest and the largest run length
\* and the floor of entries per run, so min <= avg <= max; one run when all prefixes are
\* equal, and all fields 0 for no entries
C25_StatsDescribeTheRuns ==
    sPhase = "counted" =>
        LET starts == RunStarts(sOrds)
            sizes == {RunLength(sOrds, i) : i \in starts}
        IN  /\ sOut.n_items = Len(sOrds)
            /\ sOut.n_blocks = Cardinality(starts)
            /\ sOrds = <<>> => sOut = IndexStats(0, 0, 0, 0, 0)
            /\ sOrds # <<>> =>
                /\ sOut.min_block_size = Min(sizes)
                /\ sOut.max_block_size = Max(sizes)
                /\ sOut.avg_block_size = Len(sOrds) \div Cardinality(starts)
                /\ sOut.min_block_size <= sOut.avg_block_size
                /\ sOut.avg_block_size <= sOut.max_block_size
                /\ (\A i \in 1..Len(sOrds) : sOrds[i] = sOrds[1]) => sOut.n_blocks = 1

\* three runs of different lengths have been counted
C25_Witness ==
    /\ sPhase = "counted"
    /\ sOut.n_blocks = 3
    /\ sOut.min_block_size < sOut.avg_block_size
    /\ sOut.avg_block_size < sOut.max_block_size

-----------------------------------------------------------------------------
(* Properties of the optimized op lists, the held files, the masks of sorted keys, *)
(* the block locators and the removals                                             *)

\* no Copy among ops that write a destination word another op writes too
CopyStandsAlone(ops) ==
    \A i \in 1..Len(ops) : \A j \in 1..Len(ops) :
        (i # j /\ ops[i].kind = "Copy") => ops[j].dst_word # ops[i].dst_word

\* C26: for every variant and each of the three streams the op list compiled with
\* optimize = true computes the same output as the one compiled with optimize = false,
\* for the key of the run and for every key tried, and no Copy is emitted for a
\* destination word that another op writes too
C26_OptimizedOpsComputeTheSame ==
    LET w == pParams.w
        plain == PlainOps[pParams][pVariant]
    IN  /\ pPhase = "applied" => pOut = RunOps(plain.apply, pKey, {}, w)
        /\ pPhase = "reverted" =>
               pOut = RunOps(plain.revert, PermApply(pParams, pVariant, pKey), {}, w)
        /\ pPhase = "masked" => pOut = RunOps(plain.mask, pKey, {}, w)
        /\ pPhase # "idle" =>
            /\ \A key \in Keys(pParams.f) :
                /\ PermApply(pParams, pVariant, key) = RunOps(plain.apply, key, {}, w)
                /\ PermRevert(pParams, pVariant, key) = RunOps(plain.revert, key, {}, w)
                /\ PermMask(pParams, pVariant, key) = RunOps(plain.mask, key, {}, w)
            /\ CopyStandsAlone(ApplyOps[pParams][pVariant])
            /\ CopyStandsAlone(RevertOps[pParams][pVariant])
            /\ CopyStandsAlone(MaskOps[pParams][pVariant])

\* a key with a one-bit has been run through an apply stream whose ops the optimizer
\* merged into a single Copy
C26_Witness ==
    /\ pPhase = "applied"
    /\ pKey # {}
    /\ pOut = pKey
    /\ Len(PlainOps[pParams][pVariant].apply) > 1
    /\ \E i \in 1..Len(ApplyOps[pParams][pVariant]) :
           ApplyOps[pParams][pVariant][i].kind = "Copy"

\* C27: a create on a path whose file another live vector holds under the exclusive
\* lock fails with an I/O error and leaves the file's size and contents as they were
C27_CreateOnHeldPathLeavesTheFile ==
    [][\A path \in VecPaths :
          (vLast'.op = "create" /\ vLast'.path = path /\ vLast'.held)
              => (vLast'.status = "IoError" /\ vFiles'[path] = vFiles[path])]_vars

\* C28: mask is monotone in the key order: for all permuted keys a <= b of a variant,
\* mask(a) <= mask(b), so that the entries of one masked prefix lie in one run of an
\* index sorted by permuted key
C28_MaskIsMonotone ==
    pPhase = "masked" =>
        \A b \in Keys(pParams.f) :
            KeyLess(pKey, b) => ~KeyLess(PermMask(pParams, pVariant, b), pOut)

\* the maximal run of entries that compare Equal, or the empty slice at 0
MatchingBlock(ords) ==
    LET equals == EqualRun(ords)
    IN  IF equals = {} THEN Found(0, 0) ELSE Found(Min(equals), Max(equals) + 1)

\* C29: on every slice sorted by mask_fn and every key, BlockLocator::Naive and
\* BlockLocator::DoubleBsearch return the same sub-slice: the maximal run of entries
\* whose masked key equals that of the key, or the empty slice when there is none (an
\* empty slice, a key below the first entry and a key above the last included)
C29_LocatorsReturnTheSameRun ==
    /\ sPhase \in {"naive", "double"} => sOut = MatchingBlock(sOrds)
    /\ sPhase # "idle" =>
        /\ locate_block_bsearch_and_naive_select(sOrds) = {MatchingBlock(sOrds)}
        /\ locate_block_double_bsearch(sOrds) = {MatchingBlock(sOrds)}

\* DoubleBsearch has returned a run of several entries from inside a slice
C29_Witness ==
    /\ sPhase = "double"
    /\ sOut.kind = "slice"
    /\ sOut.start > 0
    /\ sOut.stop - sOut.start >= 3
    /\ sOut.stop < Len(sOrds)

\* the outcomes of remove(keys) on index j of the pair (1 in memory, 2 memory-mapped)
RemoveOutcomes(j, data, keys) ==
    IF j = 1 THEN MemIndex_remove(lPermuters[j], data, keys)
    ELSE MemMapIndex_remove(lPermuters[j], data, keys, FALSE)

\* the keys of `keys` that have an entry in `data`
PresentKeys(j, data, keys) ==
    {k \in keys : \E i \in 1..Len(data) : data[i].key = lPermuters[j].apply[k]}

\* C30: insert(items) followed by remove(keys of items) leaves the entries the index
\* had before exactly when none of those keys had an entry before; remove(keys) a second
\* time changes nothing, and remove of keys without entries changes nothing
C30_RemoveUndoesInsertOfAbsentKeys ==
    \A j \in 1..Len(lData) :
        /\ (lLast.op = "insert" /\ lLast.status = "Ok") =>
               LET keys == {lLast.items[i].key : i \in 1..Len(lLast.items)}
               IN  \A out \in RemoveOutcomes(j, lData[j], keys) :
                       /\ out.ok
                       /\ SameBag(out.data, lLast.before[j])
                              <=> PresentKeys(j, lLast.before[j], keys) = {}
        /\ (lLast.op = "remove" /\ lLast.status = "Ok") =>
               /\ \A out \in RemoveOutcomes(j, lData[j], lLast.keys) :
                      out.ok /\ SameBag(out.data, lData[j])
               /\ PresentKeys(j, lLast.before[j], lLast.keys) = {}
                      => SameBag(lData[j], lLast.before[j])

\* two items of new keys have been inserted into a pair that held an entry
C30_Witness ==
    /\ lBackend = "pair"
    /\ lLast.op = "insert" /\ lLast.status = "Ok"
    /\ Len(lLast.before[2]) = 1
    /\ Len(lLast.items) = 2
    /\ lLast.items[1].key # lLast.items[2].key
    /\ PresentKeys(2, lLast.before[2], {lLast.items[i].key : i \in 1..2}) = {}
    /\ \E out \in RemoveOutcomes(2, lData[2], {lLast.items[i].key : i \in 1..2}) :
           out.data = lLast.before[2]

====
